---- MODULE Spec2Model ----
(***************************************************************************)
(* A model of src/src/FbxNodeReader.cpp (usdFBX): the conversion routines  *)
(* that turn an FBX scene graph into USD prims and properties.             *)
(*                                                                         *)
(* The source scene (nodes, skin, mesh layers, properties, curves) is the  *)
(* input: each specification draws it in Init from bounded sets; only the  *)
(* pivot reset of readTransform changes it.  Each routine of the source is *)
(* one action that writes its whole result.                                *)
(*                                                                         *)
(* Conventions                                                             *)
(*   - a node is its index in `nodes`; index 0 is the null pointer;        *)
(*     node 1 is the scene root (FbxScene::GetRootNode()).                 *)
(*   - an FbxSkeleton attribute is identified with the node that owns it.  *)
(*   - tokens and paths are strings, built with "/" as SdfPath does.       *)
(*   - Fault is the outcome of dereferencing a null pointer: the call      *)
(*     does not return.                                                    *)
(***************************************************************************)
EXTENDS Integers, Sequences, FiniteSets, TLC

VARIABLES
    nodes,      \* the source scene: sequence of [name, parent, kind]
    skin,       \* the skin deformer: sequence of clusters
    mesh,       \* the mesh attribute: control points, polygons, layers
    prop,       \* one source property: type tag, value, curve node
    anim,       \* the animation layer handle and the inclusive frame range
    binding,    \* what getBindingData returned
    meshOut,    \* what the mesh attribute converters returned
    propOut,    \* what the value/type mapper and the sampler returned
    prims,      \* the sink's prims by path: [typeName, children]
    props,      \* the sink's properties by path
    warnings,   \* the warnings raised so far, in order
    visit       \* the traversal: pass, walk order, position in it, reader

vars ==
    <<nodes, skin, mesh, prop, anim, binding, meshOut, propOut, prims, props,
      warnings, visit>>

\* what the node readers write
sinkVars == <<prims, props, warnings, visit>>

\* the source scene is read, never written
sourceVars == <<nodes, skin, mesh, prop, anim>>

----------------------------------------------------------------------------
(* Bounds of the model.                                                    *)

MaxClusters == 2
NumControlPoints == 3
MaxInfluences == 3

----------------------------------------------------------------------------
(* Generic helpers.                                                        *)

NoNode == 0
Fault == "<fault>"

Max(a, b) == IF a >= b THEN a ELSE b

Abs(a) == IF a >= 0 THEN a ELSE 0 - a

RECURSIVE SumSeq(_)
SumSeq(s) == IF s = <<>> THEN 0 ELSE Head(s) + SumSeq(Tail(s))

RECURSIVE Flatten(_)
Flatten(ss) == IF ss = <<>> THEN <<>> ELSE Head(ss) \o Flatten(Tail(ss))

\* the elements of a set of integers as an increasing sequence
RECURSIVE SetToSeq(_)
SetToSeq(S) ==
    IF S = {} THEN <<>>
    ELSE LET m == CHOOSE x \in S : \A y \in S : x <= y
         IN  <<m>> \o SetToSeq(S \ {m})

----------------------------------------------------------------------------
(* The source scene.                                                       *)

SceneRoot == 1

IsSkeletonKind(n) == nodes[n].kind = "eSkeleton"

\* SdfPath( a ).AppendChild( b ) and SdfPath( a ).AppendPath( b )
AppendPath(a, b) == a \o "/" \o b

----------------------------------------------------------------------------
(* converters::skeletonToTokenPath                                         *)

NodeFault == 0 - 1

\* the while loop: `parent` is a non-null node whose name is already the
\* first segment of jointPath
RECURSIVE TokenPathWalk(_, _, _)
TokenPathWalk(parent, jointPath, rootJointName) ==
    IF nodes[parent].name = rootJointName THEN jointPath
    ELSE LET up == nodes[parent].parent
         IN  IF up = NoNode THEN Fault      \* parent->GetName() on null
             ELSE TokenPathWalk(up, AppendPath(nodes[up].name, jointPath),
                                rootJointName)

skeletonToTokenPath(skeleton, rootJointName) ==
    LET jointName == nodes[skeleton].name
        parent == nodes[skeleton].parent
    IN  IF jointName = rootJointName THEN jointName
        ELSE IF parent = NoNode THEN Fault  \* parent->GetName() on null
        ELSE TokenPathWalk(parent, AppendPath(nodes[parent].name, jointName),
                           rootJointName)

----------------------------------------------------------------------------
(* converters::getBindingData                                              *)

\* Cluster weights are doubles; the model counts them in units of
\* FLT_EPSILON = 2^-23, so 1.0 is 2^23 units.  Every weight of the model is
\* a multiple of 2^-23 in [0, 1], which static_cast< float > keeps exact.
OneW == 2^23
EpsW == OneW \div (2^23)
ZeroW == EpsW - EpsW

\* Normalized weights are counted in units of 2^-30 (finer than a float's
\* 2^-24 relative rounding), so 1.0 is NormOne.
NormOne == 2^30

\* 1e-6 in units of 2^-30
Tolerance == NormOne \div 1000000

\* the walk from the first cluster's link to the topmost joint
RECURSIVE RootBoneWalk(_)
RootBoneWalk(rootBone) ==
    LET newParent == nodes[rootBone].parent
    IN  IF newParent = NoNode THEN NodeFault   \* newParent->GetNodeAttribute()
        ELSE IF ~IsSkeletonKind(newParent) THEN rootBone
        ELSE RootBoneWalk(newParent)

ResolveRootBone(link) ==
    IF link = NoNode THEN NodeFault            \* rootBone->GetName() on null
    ELSE RootBoneWalk(link)

missingValue == <<0, ZeroW>>

\* mutant: elementSize follows the last list touched instead of the longest
RECURSIVE ControlPointLoop_LastSize(_, _, _, _)
ControlPointLoop_LastSize(cluster, controlPointId, influenceIndex, acc) ==
    IF controlPointId > Len(cluster.indices) THEN acc
    ELSE LET cp == cluster.indices[controlPointId]
             list == Append(acc.lists[cp],
                            <<influenceIndex, cluster.weights[controlPointId]>>)
         IN  ControlPointLoop_LastSize(cluster, controlPointId + 1, influenceIndex,
                 [acc EXCEPT !.lists[cp] = list,
                             !.elementSize = Len(list)])

\* the inner loop over one cluster's control points (1-based position)
RECURSIVE ControlPointLoop(_, _, _, _)
ControlPointLoop(cluster, controlPointId, influenceIndex, acc) ==
    IF controlPointId > Len(cluster.indices) THEN acc
    ELSE LET cp == cluster.indices[controlPointId]
             list == Append(acc.lists[cp],
                            <<influenceIndex, cluster.weights[controlPointId]>>)
         IN  ControlPointLoop(cluster, controlPointId + 1, influenceIndex,
                 [acc EXCEPT !.lists[cp] = list,
                             !.elementSize = Max(Len(list), @)])

\* the loop over the clusters (1-based position)
RECURSIVE ClusterLoop(_, _, _)
ClusterLoop(clusterId, rootBoneName, acc) ==
    IF clusterId > Len(skin) THEN acc
    ELSE LET cluster == skin[clusterId]
         IN  IF cluster.link = NoNode
             THEN ClusterLoop(clusterId + 1, rootBoneName, acc)
             ELSE LET filled == ControlPointLoop(cluster, 1,
                                                 Len(acc.jointsUsed), acc)
                      skeletonPath == skeletonToTokenPath(cluster.link,
                                                          rootBoneName)
                  IN  ClusterLoop(clusterId + 1, rootBoneName,
                          [filled EXCEPT !.jointsUsed = Append(@, skeletonPath)])

LastIndex(elementSize, size) == elementSize - (elementSize - size)

\* one control point's list flattened to elementSize entries
PaddedInfluences(list, elementSize) ==
    [i \in 1..elementSize |->
        IF i - 1 < LastIndex(elementSize, Len(list)) THEN list[i]
        ELSE missingValue]

\* floor( r * 2^bits / d ) for 0 <= r < d, by long division
RECURSIVE DivBits(_, _, _, _)
DivBits(r, d, q, bits) ==
    IF bits = 0 THEN q
    ELSE IF 2 * r >= d THEN DivBits(2 * r - d, d, 2 * q + 1, bits - 1)
    ELSE DivBits(2 * r, d, 2 * q, bits - 1)

\* weightSet[j] /= sum, in units of 2^-30
NormalizedWeight(w, sum) ==
    IF w = sum THEN NormOne ELSE DivBits(w, sum, 0, 30)

\* mutant: every nonzero sum is normalized, however small
NormalizeComponent_AnyNonzeroSum(component) ==
    LET sum == SumSeq([i \in 1..Len(component) |-> component[i][2]])
    IN  [i \in 1..Len(component) |->
            <<component[i][1],
              IF Abs(sum) > 0 THEN NormalizedWeight(component[i][2], sum)
              ELSE 0>>]

\* UsdSkelNormalizeWeights on one component (a sequence of <<index, weight>>)
NormalizeComponent(component) ==
    LET sum == SumSeq([i \in 1..Len(component) |-> component[i][2]])
    IN  [i \in 1..Len(component) |->
            <<component[i][1],
              IF Abs(sum) > EpsW THEN NormalizedWeight(component[i][2], sum)
              ELSE 0>>]

\* std::greater on (weight, index) pairs
InfluenceGreater(a, b) == a[2] > b[2] \/ (a[2] = b[2] /\ a[1] > b[1])

RECURSIVE InsertSorted(_, _)
InsertSorted(x, s) ==
    IF s = <<>> THEN <<x>>
    ELSE IF InfluenceGreater(x, Head(s)) \/ x = Head(s) THEN <<x>> \o s
    ELSE <<Head(s)>> \o InsertSorted(x, Tail(s))

RECURSIVE SortDescending(_)
SortDescending(s) ==
    IF s = <<>> THEN <<>> ELSE InsertSorted(Head(s), SortDescending(Tail(s)))

\* mutant: the influences are left in cluster order
SortComponent_Unsorted(component) == component

\* UsdSkelSortInfluences on one component
SortComponent(component) ==
    IF Len(component) < 2 THEN component ELSE SortDescending(component)

\* the walk that builds the skeleton prim path below "/ROOT"
RECURSIVE SkeletonPathWalk(_, _)
SkeletonPathWalk(parent, jointPath) ==
    IF parent # NoNode /\ parent # SceneRoot
    THEN SkeletonPathWalk(nodes[parent].parent,
                          AppendPath(nodes[parent].name, jointPath))
    ELSE jointPath

NoBinding ==
    [status |-> "none", names |-> <<>>, perVertexInfluences |-> <<>>,
     perVertexWeights |-> <<>>, influencesPerVertex |-> 0,
     pathToSkeleton |-> ""]

FaultBinding == [NoBinding EXCEPT !.status = "fault"]

ControlPoints == 0..(mesh.controlPointsCount - 1)

\* perVertexIndicesAndWeights, jointsUsed and elementSize after the cluster loop
ClusterPass(rootBoneName) ==
    ClusterLoop(1, rootBoneName,
        [lists |-> [cp \in ControlPoints |-> <<>>],
         jointsUsed |-> <<>>,
         elementSize |-> 0])

\* mutant: the early return carries the "/ROOT" path
EmptyBindingData_RootPath ==
    [NoBinding EXCEPT !.status = "returned", !.pathToSkeleton = "/ROOT"]

\* the early return for a skin without clusters; SdfPath::EmptyPath() is ""
EmptyBindingData == [NoBinding EXCEPT !.status = "returned"]

getBindingData ==
    IF Len(skin) = 0
    THEN EmptyBindingData
    ELSE LET rootBone == ResolveRootBone(skin[1].link)
         IN  IF rootBone = NodeFault THEN FaultBinding
             ELSE
             LET pass == ClusterPass(nodes[rootBone].name)
                 elementSize == pass.elementSize
                 flat == [cp \in ControlPoints |->
                             PaddedInfluences(pass.lists[cp], elementSize)]
                 normalized == [cp \in ControlPoints |->
                                   IF elementSize > 0
                                   THEN NormalizeComponent(flat[cp])
                                   ELSE flat[cp]]
                 sorted == [cp \in ControlPoints |->
                               IF elementSize > 0
                               THEN SortComponent(normalized[cp])
                               ELSE normalized[cp]]
                 all == Flatten([i \in 1..mesh.controlPointsCount |-> sorted[i - 1]])
             IN  IF \E i \in 1..Len(pass.jointsUsed) : pass.jointsUsed[i] = Fault
                 THEN FaultBinding
                 ELSE [status |-> "returned",
                       names |-> pass.jointsUsed,
                       perVertexInfluences |-> [i \in 1..Len(all) |-> all[i][1]],
                       perVertexWeights |-> [i \in 1..Len(all) |-> all[i][2]],
                       influencesPerVertex |-> elementSize,
                       pathToSkeleton |->
                           AppendPath("/ROOT",
                               SkeletonPathWalk(nodes[rootBone].parent,
                                                nodes[rootBone].name))]

GetBindingData ==
    /\ binding.status = "none"
    /\ mesh.controlPointsCount > 0
    /\ binding' = getBindingData
    /\ UNCHANGED <<sourceVars, meshOut, propOut, sinkVars>>

----------------------------------------------------------------------------
(* helpers::getAtVertexIndex and the mesh attribute converters.            *)
(*                                                                         *)
(* A layer element is [present, mappingMode, referenceMode, direct, index,*)
(* name]; its values are abstract positive numbers.  A layer is [normals,         *)
(* tangents, uvs, colors], each a layer element.                           *)

NoElement ==
    [present |-> FALSE, mappingMode |-> "eNone", referenceMode |-> "eDirect",
     direct |-> <<>>, index |-> <<>>, name |-> ""]

\* T(): what FbxLayerElementArrayTemplate::GetAt returns outside the array
DefaultValue == 1 - 1

\* FbxLayerElementArrayTemplate::GetAt, 0-based
GetAt(array, i) ==
    IF i >= 0 /\ i < Len(array) THEN array[i + 1] ELSE DefaultValue

getAtVertexIndex(pLayerElement, iVertexIndex) ==
    CASE pLayerElement.referenceMode = "eDirect" ->
            GetAt(pLayerElement.direct, iVertexIndex)
      [] pLayerElement.referenceMode \in {"eIndex", "eIndexToDirect"} ->
            LET id == GetAt(pLayerElement.index, iVertexIndex)
            IN  GetAt(pLayerElement.direct, id)
      [] OTHER -> DefaultValue

\* the polygon vertices of a mesh in authoring order, as control point ids
PolygonVertices(m) == Flatten(m.polygons)

\* the test of meshNormals and meshTangents
IsPerPolygonVertex(element) ==
    /\ element.mappingMode = "eByPolygonVertex"
    /\ element.referenceMode # "eIndex"

\* the layer scan of meshNormals and meshTangents: no break, so the last
\* element that passes the test is kept
RECURSIVE LastPerPolygonVertex(_, _)
LastPerPolygonVertex(elements, found) ==
    IF elements = <<>> THEN found
    ELSE LastPerPolygonVertex(Tail(elements),
             IF Head(elements).present /\ IsPerPolygonVertex(Head(elements))
             THEN Head(elements) ELSE found)

\* the test of meshVertexColors: an element is skipped only when it is
\* neither by control point nor eIndex
IsVertexColorLayer(element) ==
    ~(element.mappingMode # "eByControlPoint" /\ element.referenceMode # "eIndex")

\* the layer scan of meshVertexColors: the last element not skipped is kept
RECURSIVE LastVertexColorLayer(_, _)
LastVertexColorLayer(elements, found) ==
    IF elements = <<>> THEN found
    ELSE LastVertexColorLayer(Tail(elements),
             IF Head(elements).present /\ IsVertexColorLayer(Head(elements))
             THEN Head(elements) ELSE found)

\* the test of readMesh on a UV element
IsUVLayer(element) ==
    /\ element.present
    /\ element.mappingMode = "eByPolygonVertex"
    /\ element.referenceMode # "eIndex"

\* every polygon vertex resolved through getAtVertexIndex, currentIndex
\* counting the polygon vertices
PerPolygonVertex(m, element) ==
    [p \in 1..Len(PolygonVertices(m)) |-> getAtVertexIndex(element, p - 1)]

\* FbxMesh::GetPolygonVertexNormal of the FBX SDK, used when no layer passes
\* the test: the first normals element, keyed by control point or by polygon
\* vertex and resolved by its reference mode; nothing without normals
PolygonVertexNormals(m) ==
    LET withNormals == SelectSeq(m.layers, LAMBDA l : l.normals.present)
    IN  IF withNormals = <<>> THEN <<>>
        ELSE LET element == Head(withNormals).normals
             IN  [p \in 1..Len(PolygonVertices(m)) |->
                    getAtVertexIndex(element,
                        IF element.mappingMode = "eByControlPoint"
                        THEN PolygonVertices(m)[p] ELSE p - 1)]

meshNormals(m) ==
    LET perPolygonVertexNormals ==
            LastPerPolygonVertex([i \in 1..Len(m.layers) |-> m.layers[i].normals],
                                 NoElement)
    IN  IF perPolygonVertexNormals.present
        THEN PerPolygonVertex(m, perPolygonVertexNormals)
        ELSE PolygonVertexNormals(m)

meshTangents(m) ==
    LET perPolygonVertexTangents ==
            LastPerPolygonVertex([i \in 1..Len(m.layers) |-> m.layers[i].tangents],
                                 NoElement)
    IN  IF ~perPolygonVertexTangents.present THEN <<>>
        ELSE PerPolygonVertex(m, perPolygonVertexTangents)

meshVertexColors(m) ==
    LET perPolygonVertexColors ==
            LastVertexColorLayer([i \in 1..Len(m.layers) |-> m.layers[i].colors],
                                 NoElement)
    IN  IF ~perPolygonVertexColors.present THEN <<>>
        ELSE [i \in 1..m.controlPointsCount |->
                GetAt(perPolygonVertexColors.direct, i - 1)]

meshTexCoords(m, layerIndex) == PerPolygonVertex(m, m.layers[layerIndex].uvs)

hasVertexColors(m) == \E i \in 1..Len(m.layers) : m.layers[i].colors.present

\* the property name readMesh builds for the UV element of a layer: the
\* element's name is the suffix when the mesh has more than one layer
UVPropertyName(m, layerIndex) ==
    LET suffix == IF Len(m.layers) > 1
                  THEN "_" \o m.layers[layerIndex].uvs.name ELSE ""
    IN  "primvars:st" \o suffix

\* the UV loop of readMesh: one property per accepted UV layer, by layer
UVProperties(m) ==
    LET accepted == SelectSeq([i \in 1..Len(m.layers) |-> i],
                              LAMBDA i : IsUVLayer(m.layers[i].uvs))
    IN  [k \in 1..Len(accepted) |->
            [layer |-> accepted[k], name |-> UVPropertyName(m, accepted[k]),
             values |-> meshTexCoords(m, accepted[k])]]

NoMeshOut ==
    [status |-> "none", normals |-> <<>>, tangents |-> <<>>,
     hasColors |-> FALSE, colors |-> <<>>, uvs |-> <<>>]

\* the values readMesh hands to CreateProperty for normals, tangents,
\* primvars:displayColor and primvars:st*
MeshAttributes(m) ==
    [status |-> "read",
     normals |-> meshNormals(m),
     tangents |-> meshTangents(m),
     hasColors |-> hasVertexColors(m),
     colors |-> IF hasVertexColors(m) THEN meshVertexColors(m) ELSE <<>>,
     uvs |-> UVProperties(m)]

ReadMeshAttributes ==
    /\ meshOut.status = "none"
    /\ Len(mesh.polygons) > 0
    /\ meshOut' = MeshAttributes(mesh)
    /\ UNCHANGED <<sourceVars, binding, propOut, sinkVars>>

----------------------------------------------------------------------------
(* helpers::FbxToUsd: the value/type mapper.                               *)
(*                                                                         *)
(* A source property is [type, raw, valid, curveNode]: `type` is its       *)
(* EFbxType tag, `raw` the stored value (an integer, a tuple of integers   *)
(* or a string).  A converted value is [held, val]: the C++ type the       *)
(* VtValue holds and the value.                                            *)

Val(held, val) == [held |-> held, val |-> val]

\* static_cast< uint8_t >: the value modulo 2^8
ToUInt8(x) == x % (2^8)

\* how many entries of animChannels getValue( animChannels ) reads
ChannelsRead(type) ==
    CASE type = "eFbxDouble2" -> 2
      [] type = "eFbxDouble3" -> 3
      [] type = "eFbxDouble4" -> 4
      [] type = "eFbxDouble4x4" -> 16
      [] type \in {"eFbxBool", "eFbxUChar", "eFbxChar", "eFbxShort",
                   "eFbxUShort", "eFbxInt", "eFbxUInt", "eFbxLongLong",
                   "eFbxULongLong", "eFbxHalfFloat", "eFbxFloat",
                   "eFbxDouble"} -> 1
      [] OTHER -> 0

getSdfTypeName(type) ==
    CASE type \in {"eFbxUChar", "eFbxChar"} -> "UChar"
      [] type = "eFbxShort" -> "Int"
      [] type = "eFbxUShort" -> "UInt"
      [] type = "eFbxLongLong" -> "Int64"
      [] type = "eFbxULongLong" -> "UInt64"
      [] type = "eFbxHalfFloat" -> "Half"
      [] type = "eFbxBool" -> "Bool"
      [] type = "eFbxInt" -> "Int"
      [] type = "eFbxUInt" -> "UInt"
      [] type \in {"eFbxDistance", "eFbxFloat"} -> "Float"
      [] type = "eFbxDouble" -> "Double"
      [] type = "eFbxDouble2" -> "Double2"
      [] type = "eFbxDouble3" -> "Double3"
      [] type = "eFbxDouble4" -> "Double4"
      [] type = "eFbxDouble4x4" -> "Matrix4d"
      [] type = "eFbxTime" -> "TimeCode"
      [] type \in {"eFbxBlob", "eFbxString"} -> "Token"
      [] OTHER -> "Token"

\* a default label that throws instead of returning the token
UnknownType_Throws == Val(Fault, Fault)

\* what the default label of getValue() returns
UnknownType == Val("TfToken", "UNKNOWN TYPE")

\* getValue(): the property's own value
getValue(type, raw) ==
    CASE type = "eFbxUChar" -> Val("uint8_t", raw)
      [] type = "eFbxChar" -> Val("uint8_t", ToUInt8(raw))
      [] type = "eFbxShort" -> Val("int32_t", raw)
      [] type = "eFbxUShort" -> Val("uint32_t", raw)
      [] type = "eFbxLongLong" -> Val("int64_t", raw)
      [] type = "eFbxULongLong" -> Val("uint64_t", raw)
      [] type = "eFbxHalfFloat" -> Val("GfHalf", raw)
      [] type = "eFbxBool" -> Val("bool", raw # 0)
      [] type = "eFbxInt" -> Val("int32_t", raw)
      [] type = "eFbxUInt" -> Val("uint32_t", raw)
      [] type = "eFbxFloat" -> Val("float", raw)
      [] type = "eFbxDouble" -> Val("double", raw)
      [] type = "eFbxDouble2" -> Val("GfVec2d", <<raw[1], raw[2]>>)
      [] type = "eFbxDouble3" -> Val("GfVec3d", <<raw[1], raw[2], raw[3]>>)
      [] type = "eFbxDouble4" -> Val("GfVec4d", <<raw[1], raw[2], raw[3], raw[4]>>)
      [] type = "eFbxDouble4x4" -> Val("GfMatrix4d", [i \in 1..16 |-> raw[i]])
      [] type = "eFbxTime" -> Val("UsdTimeCode", raw)
      [] type = "eFbxDistance" -> Val("float", raw)
      [] type = "eFbxBlob" -> Val("TfToken", raw)
      [] type = "eFbxString" -> Val("TfToken", raw)
      [] OTHER -> UnknownType

\* getValue( animChannels ): one frame's sampled channels; a read past the
\* end of the vector is undefined
getValueOfChannels(type, animChannels) ==
    IF ChannelsRead(type) > Len(animChannels) THEN Val(Fault, Fault)
    ELSE
    CASE type = "eFbxBool" -> Val("bool", animChannels[1] # 0)
      [] type \in {"eFbxUChar", "eFbxChar"} -> Val("uint8_t", ToUInt8(animChannels[1]))
      [] type = "eFbxShort" -> Val("int32_t", animChannels[1])
      [] type = "eFbxUShort" -> Val("uint32_t", animChannels[1])
      [] type = "eFbxInt" -> Val("int32_t", animChannels[1])
      [] type = "eFbxUInt" -> Val("uint32_t", animChannels[1])
      [] type = "eFbxLongLong" -> Val("int64_t", animChannels[1])
      [] type = "eFbxULongLong" -> Val("uint64_t", animChannels[1])
      [] type = "eFbxHalfFloat" -> Val("GfHalf", animChannels[1])
      [] type = "eFbxFloat" -> Val("float", animChannels[1])
      [] type = "eFbxDouble" -> Val("double", animChannels[1])
      [] type = "eFbxDouble2" -> Val("GfVec2d", SubSeq(animChannels, 1, 2))
      [] type = "eFbxDouble3" -> Val("GfVec3d", SubSeq(animChannels, 1, 3))
      [] type = "eFbxDouble4" -> Val("GfVec4d", SubSeq(animChannels, 1, 4))
      [] type = "eFbxDouble4x4" -> Val("GfMatrix4d", SubSeq(animChannels, 1, 16))
      [] OTHER -> Val("TfToken", "UNKNOWN VALUE")

----------------------------------------------------------------------------
(* helpers::getPropertyAnimation: the animation sampler.                   *)
(*                                                                         *)
(* anim is [layer, start, stop]: whether the FbxAnimLayer* is non-null and *)
(* the frame counts of the time span's start and stop.  A curve node is    *)
(* [present, curves], one entry of `curves` per channel; a curve is "none" *)
(* (no FbxAnimCurve on the channel), "constant" or "ramp".  Sampled floats *)
(* are small integers.                                                     *)

NoCurveNode == [present |-> FALSE, curves |-> <<>>]

\* FbxAnimCurve::Evaluate at a frame
Evaluate(animCurve, frame) ==
    CASE animCurve = "constant" -> 1
      [] animCurve = "ramp" -> frame
      [] OTHER -> 0

GetChannelsCount(curveNode) == Len(curveNode.curves)

\* the frames visited by `for( frame = start; frame <= stop; ++frame )`
FrameLoop(animTimeSpan) ==
    [i \in 1..Max(0, animTimeSpan.stop - animTimeSpan.start + 1) |->
        animTimeSpan.start + i - 1]

\* mutant: the members from the greatest down
RECURSIVE Ascending_FromGreatest(_)
Ascending_FromGreatest(S) ==
    IF S = {} THEN <<>>
    ELSE LET greatest == CHOOSE x \in S : \A y \in S : x >= y
         IN  <<greatest>> \o Ascending_FromGreatest(S \ {greatest})

\* a std::set iterated from begin(): its members in ascending order
RECURSIVE Ascending(_)
Ascending(S) ==
    IF S = {} THEN <<>>
    ELSE LET least == CHOOSE x \in S : \A y \in S : x <= y
         IN  <<least>> \o Ascending(S \ {least})

\* imageableVisibility: the node's Visibility at a time, as a token
GetPropertyValue(fbxProperty, frame) ==
    IF fbxProperty.curveNode.present
       /\ GetChannelsCount(fbxProperty.curveNode) > 0
       /\ fbxProperty.curveNode.curves[1] # "none"
    THEN Evaluate(fbxProperty.curveNode.curves[1], frame)
    ELSE fbxProperty.raw

imageableVisibility(visibility, frame) ==
    IF GetPropertyValue(visibility, frame) <= 0
    THEN Val("TfToken", "invisible")
    ELSE Val("TfToken", "inherited")

\* overload taking a value function, here imageableVisibility
getPropertyAnimationOfVisibility(visibility, animLayer, animTimeSpan) ==
    IF ~animLayer THEN <<>>
    ELSE LET frames == FrameLoop(animTimeSpan)
         IN  [i \in 1..Len(frames) |->
                <<frames[i], imageableVisibility(visibility, frames[i])>>]

\* numKeys counting one frame too few
NumKeys_DurationOnly(animTimeSpan) == animTimeSpan.stop - animTimeSpan.start

\* numKeys = animTimeSpan.GetDuration().GetFrameCount() + 1
NumKeys(animTimeSpan) == Abs(animTimeSpan.stop - animTimeSpan.start) + 1

\* mutant: every channel must have a curve
hasAnimCurves_EveryChannel(curveNode) ==
    \A channelId \in 1..GetChannelsCount(curveNode) :
        curveNode.curves[channelId] # "none"

hasAnimCurves(curveNode) ==
    \E channelId \in 1..GetChannelsCount(curveNode) :
        curveNode.curves[channelId] # "none"

\* channelValues after the per-channel loops; a frame loop longer than
\* numKeys writes past the end of the vector
ChannelValues(curveNode, animTimeSpan) ==
    LET frames == FrameLoop(animTimeSpan)
    IN  [index \in 1..NumKeys(animTimeSpan) |->
            [channelId \in 1..GetChannelsCount(curveNode) |->
                IF curveNode.curves[channelId] # "none" /\ index <= Len(frames)
                THEN Evaluate(curveNode.curves[channelId], frames[index])
                ELSE 0]]

\* what the sampler returns: the samples, or undefined behaviour
Samples(result) == [undefined |-> FALSE, samples |-> result]
UndefinedSamples == [undefined |-> TRUE, samples |-> <<>>]

\* overload taking the property
getPropertyAnimation(fbxProperty, animLayer, animTimeSpan) ==
    IF ~animLayer THEN Samples(<<>>)
    ELSE IF ~fbxProperty.valid THEN Samples(<<>>)
    ELSE IF ~fbxProperty.curveNode.present THEN Samples(<<>>)
    ELSE IF ~hasAnimCurves(fbxProperty.curveNode) THEN Samples(<<>>)
    ELSE
    LET numKeys == NumKeys(animTimeSpan)
        frames == FrameLoop(animTimeSpan)
        channelValues == ChannelValues(fbxProperty.curveNode, animTimeSpan)
        timeCodes == Ascending({frames[i] : i \in 1..Len(frames)})
    IN  IF Len(frames) > numKeys \/ Len(timeCodes) < numKeys
        THEN UndefinedSamples
        ELSE Samples([i \in 1..numKeys |->
                <<timeCodes[i],
                  getValueOfChannels(fbxProperty.type, channelValues[i])>>])

NoProperty ==
    [type |-> "eFbxUndefined", raw |-> 0, valid |-> FALSE,
     curveNode |-> NoCurveNode]

NoAnim == [layer |-> FALSE, start |-> 0, stop |-> 0]

NoPropOut ==
    [done |-> {}, typeName |-> "", value |-> Val("", ""),
     animation |-> Samples(<<>>), visibilitySamples |-> <<>>]

IdleProperty == prop = NoProperty /\ anim = NoAnim /\ propOut = NoPropOut

\* FbxToUsd{ &prop }.getSdfTypeName()
GetSdfTypeName ==
    /\ "getSdfTypeName" \notin propOut.done
    /\ prop.valid
    /\ propOut' = [propOut EXCEPT !.done = @ \cup {"getSdfTypeName"},
                                  !.typeName = getSdfTypeName(prop.type)]
    /\ UNCHANGED <<sourceVars, binding, meshOut, sinkVars>>

\* FbxToUsd{ &prop }.getValue()
GetValue ==
    /\ "getValue" \notin propOut.done
    /\ prop.valid
    /\ propOut' = [propOut EXCEPT !.done = @ \cup {"getValue"},
                                  !.value = getValue(prop.type, prop.raw)]
    /\ UNCHANGED <<sourceVars, binding, meshOut, sinkVars>>

\* getPropertyAnimation( node, prop, animLayer, animTimeSpan )
GetPropertyAnimation ==
    /\ "getPropertyAnimation" \notin propOut.done
    /\ propOut' = [propOut EXCEPT
                     !.done = @ \cup {"getPropertyAnimation"},
                     !.animation = getPropertyAnimation(prop, anim.layer, anim)]
    /\ UNCHANGED <<sourceVars, binding, meshOut, sinkVars>>

\* getPropertyAnimation( node, visibilityFn, animLayer, animTimeSpan ), the
\* property being the node's Visibility (an FbxDouble)
GetVisibilityAnimation ==
    /\ "visibility" \notin propOut.done
    /\ prop.valid
    /\ prop.type = "eFbxDouble"
    /\ propOut' = [propOut EXCEPT
                     !.done = @ \cup {"visibility"},
                     !.visibilitySamples =
                        getPropertyAnimationOfVisibility(prop, anim.layer, anim)]
    /\ UNCHANGED <<sourceVars, binding, meshOut, sinkVars>>

----------------------------------------------------------------------------
(* The target sink and FbxNodeReaderContext's property helpers.            *)
(*                                                                         *)
(* The sink (UsdFbxDataReader) is get-or-create by path: adding a prim or  *)
(* a property at a path that exists returns the one that is there.         *)

RootPath == "/ROOT"

AppendProperty(path, name) == path \o "." \o name

\* context.GetPath(): "/ROOT" followed by the names from below the scene
\* root down to the node
ContextPath(n) ==
    AppendPath(RootPath, SkeletonPathWalk(nodes[n].parent, nodes[n].name))

\* context.GetPath().GetParentPath()
ParentPath(n) ==
    IF nodes[n].parent \in {NoNode, SceneRoot} THEN RootPath
    ELSE ContextPath(nodes[n].parent)

NoMetadata == [key \in {} |-> ""]

NewPrim == [typeName |-> "", metadata |-> NoMetadata, children |-> <<>>]

GetPrimAtPath(ps, path) == path \in DOMAIN ps

AddPrim(ps, path) ==
    IF path \in DOMAIN ps THEN ps
    ELSE [p \in DOMAIN ps \cup {path} |-> IF p = path THEN NewPrim ELSE ps[p]]

NoDefault == Val("", "")

NewProperty ==
    [typeName |-> "", variability |-> "varying", value |-> NoDefault,
     timeSamples |-> <<>>, metadata |-> NoMetadata, targetPaths |-> <<>>]

AddProperty(ps, path) ==
    IF path \in DOMAIN ps THEN ps
    ELSE [p \in DOMAIN ps \cup {path} |->
            IF p = path THEN NewProperty ELSE ps[p]]

getDisplayGroupMetadata(displayGroupName) == ("displayGroup" :> displayGroupName)

Custom == ("custom" :> "true")

\* CreateProperty with a null fbxProperty: the time samples stay as they are
CreateProperty(ps, propertyPath, typeName, defaultValue, metadata, variability) ==
    [AddProperty(ps, propertyPath) EXCEPT
        ![propertyPath] = [@ EXCEPT !.metadata = metadata,
                                    !.typeName = typeName,
                                    !.variability = variability,
                                    !.value = defaultValue]]

\* CreateProperty with a source property or a value function: the time
\* samples are replaced by what the sampler returns
CreateSampledProperty(ps, propertyPath, typeName, defaultValue, samples, metadata, variability) ==
    [AddProperty(ps, propertyPath) EXCEPT
        ![propertyPath] = [@ EXCEPT !.metadata = metadata,
                                    !.typeName = typeName,
                                    !.variability = variability,
                                    !.timeSamples = samples,
                                    !.value = defaultValue]]

\* prop.timeSamples = ... on the property a CreateProperty call returned
SetTimeSamples(ps, propertyPath, samples) ==
    [ps EXCEPT ![propertyPath].timeSamples = samples]

CreateRelationship(ps, from, to, metadata) ==
    [CreateProperty(ps, from, "Token", NoDefault, metadata, "uniform") EXCEPT
        ![from].targetPaths = Append(@, to)]

\* SdfPathListOp::Create( { path } ): an explicit list of one path
ConnectionPathsTo(path) == ("connectionPaths" :> path)

\* CreateConnection: the source property is created, given the connection
\* paths entry, and created again with the target's type name
CreateConnection(ps, sourcePath, sourceAttribute, targetPath, targetAttribute, targetTypeName, metadata) ==
    LET sourcePropertyPath == AppendProperty(sourcePath, sourceAttribute)
        targetPropertyPath == AppendProperty(targetPath, targetAttribute)
        sourceProperty ==
            CreateProperty(ps, sourcePropertyPath, "void", NoDefault,
                           metadata, "varying")
        connected ==
            [sourceProperty EXCEPT
                ![sourcePropertyPath].metadata =
                    ConnectionPathsTo(targetPropertyPath) @@ @]
    IN  CreateProperty(connected, sourcePropertyPath, targetTypeName,
                       NoDefault, metadata, "varying")

\* what one TF_WARN leaves behind
Warning(reader, node, what) == [reader |-> reader, node |-> node, what |-> what]

\* the parent's child list and the prim of readSkeleton/readSkeletonAnimation
PushChildAndAddPrim(ps, parentPath, primName, typeName) ==
    LET pushed == IF GetPrimAtPath(ps, parentPath)
                  THEN [ps EXCEPT ![parentPath].children = Append(@, primName)]
                  ELSE ps
        primPath == AppendPath(parentPath, primName)
    IN  [AddPrim(pushed, primPath) EXCEPT ![primPath].typeName = typeName]

ParentWarning(ps, reader, n) ==
    IF GetPrimAtPath(ps, ParentPath(n)) THEN <<>>
    ELSE <<Warning(reader, n, "no parent")>>

----------------------------------------------------------------------------
(* The joint hierarchy of readSkeleton and readSkeletonAnimation.          *)

\* node->GetChild( i ): the children of a node in child order
Children(n) == nodes[n].children

\* a collection that descends below a child that is no joint
RECURSIVE collectSkeletonHierarchy_Descending(_, _, _)
collectSkeletonHierarchy_Descending(skeleton, i, acc) ==
    IF i > Len(Children(skeleton)) THEN acc
    ELSE LET child == Children(skeleton)[i]
         IN  IF ~IsSkeletonKind(child)
             THEN collectSkeletonHierarchy_Descending(skeleton, i + 1,
                    collectSkeletonHierarchy_Descending(child, 1,
                        [acc EXCEPT !.warned = Append(@, child)]))
             ELSE collectSkeletonHierarchy_Descending(skeleton, i + 1,
                    collectSkeletonHierarchy_Descending(child, 1,
                        [acc EXCEPT !.hierarchy = Append(@, child)]))

\* the recursive lambda: the loop over the children of `skeleton` from
\* position i, acc holding skeletonHierarchy and the children warned about
RECURSIVE collectSkeletonHierarchy(_, _, _)
collectSkeletonHierarchy(skeleton, i, acc) ==
    IF i > Len(Children(skeleton)) THEN acc
    ELSE LET child == Children(skeleton)[i]
         IN  IF ~IsSkeletonKind(child)
             THEN collectSkeletonHierarchy(skeleton, i + 1,
                    [acc EXCEPT !.warned = Append(@, child)])
             ELSE collectSkeletonHierarchy(skeleton, i + 1,
                    collectSkeletonHierarchy(child, 1,
                        [acc EXCEPT !.hierarchy = Append(@, child)]))

\* std::vector skeletonHierarchy{ pSkeleton }; collectSkeletonHierarchy( pSkeleton )
SkeletonHierarchy(n) ==
    collectSkeletonHierarchy(n, 1, [hierarchy |-> <<n>>, warned |-> <<>>])

HierarchyWarnings(reader, n) ==
    LET warned == SkeletonHierarchy(n).warned
    IN  [i \in 1..Len(warned) |-> Warning(reader, warned[i], "not a skeleton")]

skeletonHierarchyToTokenList(skeletonHierarchy) ==
    [i \in 1..Len(skeletonHierarchy) |->
        skeletonToTokenPath(skeletonHierarchy[i],
                            nodes[skeletonHierarchy[1]].name)]

\* mutant: the matrices of the joints below the first one only
skeletonHierarchyToMatrices_BelowFirst(skeletonHierarchy, space) ==
    [i \in 1..(Len(skeletonHierarchy) - 1) |-> <<skeletonHierarchy[i + 1], space>>]

\* one matrix per joint: whose it is and in which space
skeletonHierarchyToMatrices(skeletonHierarchy, space) ==
    [i \in 1..Len(skeletonHierarchy) |-> <<skeletonHierarchy[i], space>>]

\* parent && isSkeleton( parent )
IsChildJoint(n) ==
    nodes[n].parent # NoNode /\ IsSkeletonKind(nodes[n].parent)

----------------------------------------------------------------------------
(* readSkeleton, readSkeletonAnimation and readImageable on one node.  A   *)
(* reader's result is [prims, props, warnings]: the sink after it and the  *)
(* warnings it raised.                                                     *)

Written(ps, pr, w) == [prims |-> ps, props |-> pr, warnings |-> w]

readSkeleton(n, ps, pr) ==
    IF ~IsSkeletonKind(n) THEN Written(ps, pr, <<>>)
    ELSE IF IsChildJoint(n) THEN Written(ps, pr, <<>>)
    ELSE
    LET skeletonHierarchy == SkeletonHierarchy(n).hierarchy
        metadata == getDisplayGroupMetadata("skeleton")
        joints ==
            CreateProperty(pr, AppendProperty(ContextPath(n), "joints"),
                "TokenArray",
                Val("VtTokenArray", skeletonHierarchyToTokenList(skeletonHierarchy)),
                metadata, "uniform")
        restTransforms ==
            CreateProperty(joints, AppendProperty(ContextPath(n), "restTransforms"),
                "Matrix4dArray",
                Val("VtMatrix4dArray",
                    skeletonHierarchyToMatrices(skeletonHierarchy, "Local")),
                metadata, "uniform")
        bindTransforms ==
            CreateProperty(restTransforms,
                AppendProperty(ContextPath(n), "bindTransforms"),
                "Matrix4dArray",
                Val("VtMatrix4dArray",
                    skeletonHierarchyToMatrices(skeletonHierarchy, "World")),
                metadata, "uniform")
    IN  Written(PushChildAndAddPrim(ps, ParentPath(n), nodes[n].name, "Skeleton"),
                bindTransforms,
                ParentWarning(ps, "readSkeleton", n)
                    \o HierarchyWarnings("readSkeleton", n))

\* getUserProperties and getAnimatedUserProperties
getUserProperties(n) ==
    SelectSeq(nodes[n].properties, LAMBDA p : p.userDefined)

getAnimatedUserProperties(n) ==
    SelectSeq(getUserProperties(n), LAMBDA p : p.curveNode.present)

\* fbxProps of one joint: its animated user properties, then Visibility
AnimatedProperties(n) ==
    getAnimatedUserProperties(n) \o
    (IF nodes[n].visibility.curveNode.present THEN <<nodes[n].visibility>>
     ELSE <<>>)

getNameAsUserProperty(fbxProperty) == "userProperties:" \o fbxProperty.name

GetArrayType(typeName) == typeName \o "Array"

\* what the loop over the joints pushes, in order: one entry per joint and
\* animated property
PropertyEntries(skeletonHierarchy, skeletonTokens) ==
    Flatten([idx \in 1..Len(skeletonHierarchy) |->
        LET fbxProps == AnimatedProperties(skeletonHierarchy[idx])
        IN  [k \in 1..Len(fbxProps) |->
                [name |-> getNameAsUserProperty(fbxProps[k]),
                 typeName |-> GetArrayType(getSdfTypeName(fbxProps[k].type)),
                 value |-> getValue(fbxProps[k].type, fbxProps[k].raw),
                 ownerPath |-> skeletonTokens[idx],
                 timeAndValue |->
                    getPropertyAnimation(fbxProps[k], anim.layer, anim).samples]]])

\* propertiesMap[ name ]: values, ownerPaths and timeSamples
PropertyOfMap(entries, name) ==
    LET mine == SelectSeq(entries, LAMBDA e : e.name = name)
        times == Ascending(UNION {
                    {mine[i].timeAndValue[j][1] :
                        j \in 1..Len(mine[i].timeAndValue)} :
                    i \in 1..Len(mine)})
        ValuesAt(time) ==
            Flatten([i \in 1..Len(mine) |->
                LET at == SelectSeq(mine[i].timeAndValue, LAMBDA tv : tv[1] = time)
                IN  [j \in 1..Len(at) |-> at[j][2]]])
    IN  [name |-> name,
         typeName |-> mine[1].typeName,
         values |-> [i \in 1..Len(mine) |-> mine[i].value],
         ownerPaths |-> [i \in 1..Len(mine) |-> mine[i].ownerPath],
         timeSamples |->
            [i \in 1..Len(times) |->
                <<times[i], Val("std::vector<VtValue>", ValuesAt(times[i]))>>]]

\* the loop over propertiesMap: the property and its ":owner" companion
RECURSIVE CreateMappedProperties(_, _, _, _)
CreateMappedProperties(pr, skelAnimPrimPath, entries, names) ==
    IF names = {} THEN pr
    ELSE
    LET propName == CHOOSE name \in names : TRUE
        mapped == PropertyOfMap(entries, propName)
        metadata == getDisplayGroupMetadata("user") @@ Custom
        usdProp ==
            SetTimeSamples(
                CreateProperty(pr, AppendProperty(skelAnimPrimPath, propName),
                    mapped.typeName,
                    Val("std::vector<VtValue>", mapped.values),
                    metadata, "varying"),
                AppendProperty(skelAnimPrimPath, propName),
                mapped.timeSamples)
        owner ==
            CreateProperty(usdProp,
                AppendProperty(skelAnimPrimPath, propName \o ":owner"),
                "TokenArray", Val("VtTokenArray", mapped.ownerPaths),
                metadata, "uniform")
    IN  CreateMappedProperties(owner, skelAnimPrimPath, entries,
                               names \ {propName})

\* evaluator->GetNodeLocalTransform( node, time ): still unless animated
LocalTransform(n, time) == <<n, IF nodes[n].animated THEN time ELSE 0>>

\* numFrames and the frame loop of readSkeletonAnimation: one sample per
\* frame 0..numFrames, at the span's start plus the frame
NumFrames == Abs(anim.stop - anim.start)

TransformSamples(skeletonHierarchy, held) ==
    [frame \in 1..(NumFrames + 1) |->
        <<anim.start + frame - 1,
          Val(held, [j \in 1..Len(skeletonHierarchy) |->
                LocalTransform(skeletonHierarchy[j], anim.start + frame - 1)])>>]

ScaleSamples(skeletonHierarchy) ==
    [frame \in 1..(NumFrames + 1) |->
        <<anim.start + frame - 1,
          Val("VtVec3hArray", [j \in 1..Len(skeletonHierarchy) |-> <<1, 1, 1>>])>>]

\* samples counted unique when they are all the same
hasUniqueScales_WhenAllEqual(scales) ==
    \A i \in 2..Len(scales) : scales[i][2] = scales[1][2]

hasUniqueScales(scales) ==
    ~(\A i \in 2..Len(scales) : scales[i][2] = scales[1][2])

readSkeletonAnimation(n, ps, pr) ==
    IF ~anim.layer THEN Written(ps, pr, <<>>)
    ELSE IF IsChildJoint(n) THEN Written(ps, pr, <<>>)
    ELSE
    LET skelAnimationPrimName == "Animation" \o nodes[n].name
        skelAnimPrimPath == AppendPath(ParentPath(n), skelAnimationPrimName)
        skeletonHierarchy == SkeletonHierarchy(n).hierarchy
        skeletonTokens == skeletonHierarchyToTokenList(skeletonHierarchy)
        entries == PropertyEntries(skeletonHierarchy, skeletonTokens)
        translations == TransformSamples(skeletonHierarchy, "VtVec3fArray")
        rotations == TransformSamples(skeletonHierarchy, "VtQuatfArray")
        scales == ScaleSamples(skeletonHierarchy)
        metadata == getDisplayGroupMetadata("skelanimation")
        joints ==
            CreateProperty(pr, AppendProperty(skelAnimPrimPath, "joints"),
                "TokenArray", Val("VtTokenArray", skeletonTokens),
                metadata, "uniform")
        translationsProp ==
            SetTimeSamples(
                CreateProperty(joints,
                    AppendProperty(skelAnimPrimPath, "translations"),
                    "Float3Array", translations[1][2], metadata, "varying"),
                AppendProperty(skelAnimPrimPath, "translations"), translations)
        rotationsProp ==
            SetTimeSamples(
                CreateProperty(translationsProp,
                    AppendProperty(skelAnimPrimPath, "rotations"),
                    "QuatfArray", rotations[1][2], metadata, "varying"),
                AppendProperty(skelAnimPrimPath, "rotations"), rotations)
        scalesCreated ==
            CreateProperty(rotationsProp,
                AppendProperty(skelAnimPrimPath, "scales"),
                "Half3Array", scales[1][2], metadata, "varying")
        scalesProp ==
            IF hasUniqueScales(scales)
            THEN SetTimeSamples(scalesCreated,
                    AppendProperty(skelAnimPrimPath, "scales"), scales)
            ELSE scalesCreated
        userProps ==
            CreateMappedProperties(scalesProp, skelAnimPrimPath, entries,
                {entries[i].name : i \in 1..Len(entries)})
        pathToSkeleton == AppendPath(RootPath, nodes[n].name)
        relationship ==
            CreateRelationship(userProps,
                AppendProperty(pathToSkeleton, "skel:animationSource"),
                skelAnimPrimPath, metadata)
    IN  Written(PushChildAndAddPrim(ps, ParentPath(n), skelAnimationPrimName,
                                    "SkelAnimation"),
                relationship,
                ParentWarning(ps, "readSkeletonAnimation", n)
                    \o HierarchyWarnings("readSkeletonAnimation", n))

readImageable(n, ps, pr) ==
    LET visibility ==
            CreateSampledProperty(pr, AppendProperty(ContextPath(n), "visibility"),
                "Token", imageableVisibility(nodes[n].visibility, 0),
                getPropertyAnimationOfVisibility(nodes[n].visibility,
                                                 anim.layer, anim),
                getDisplayGroupMetadata("imageable"), "varying")
        purpose ==
            CreateProperty(visibility, AppendProperty(ContextPath(n), "purpose"),
                "Token", Val("TfToken", "default"),
                getDisplayGroupMetadata("imageable"), "uniform")
        generated ==
            CreateSampledProperty(purpose,
                AppendProperty(ContextPath(n), "generated:visibility"),
                "Double", Val("double", nodes[n].visibility.raw),
                getPropertyAnimation(nodes[n].visibility, anim.layer, anim).samples,
                getDisplayGroupMetadata("generated") @@ Custom, "varying")
    IN  Written(ps, generated, <<>>)

\* context.GetOrAddPrim(): the prim of the node's own path
GetOrAddPrim(ps, n) == AddPrim(ps, ContextPath(n))

\* readMetadata: no reader list holds it and nothing in the file calls it
readMetadata(n, ps, pr) ==
    LET path == ContextPath(n)
        comment == "Converted from \"" \o nodes[n].name \o "\""
    IN  Written([GetOrAddPrim(ps, n) EXCEPT
                    ![path].metadata =
                        ("active" :> "true") @@ ("hidden" :> "false")
                            @@ ("comment" :> comment) @@ @],
                pr, <<>>)

readUnknown(n, ps, pr) ==
    Written([GetOrAddPrim(ps, n) EXCEPT ![ContextPath(n)].typeName = "Scope"],
            pr, <<>>)

\* the nodes of the subtree of n, n included
RECURSIVE Subtree(_)
Subtree(n) ==
    {n} \cup UNION {Subtree(Children(n)[i]) : i \in 1..Len(Children(n))}

NoRotation == <<0, 0, 0>>

\* FbxNode::ResetPivotSetAndConvertAnimation() of the FBX SDK, on n and the
\* nodes below it: the pre-rotation is folded into the local rotation (the
\* rotations of the model turn about one axis, so they add up) and cleared.
\* The local transforms of the model carry no curves, so there is no curve
\* to convert.
ResetPivotSetAndConvertAnimation(n) ==
    [m \in DOMAIN nodes |->
        IF m \in Subtree(n) /\ m # SceneRoot
        THEN [nodes[m] EXCEPT
                !.LclRotation.raw =
                    [i \in 1..3 |-> @[i] + nodes[m].PreRotation[i]],
                !.PreRotation = NoRotation]
        ELSE nodes[m]]

\* UsdGeomXformOp::GetOpName for the node's rotation order; SphericXYZ falls
\* back to XYZ
RotateOpName(rotationOrder) ==
    CASE rotationOrder = "eOrderXYZ" -> "xformOp:rotateXYZ"
      [] rotationOrder = "eOrderXZY" -> "xformOp:rotateXZY"
      [] rotationOrder = "eOrderYXZ" -> "xformOp:rotateYXZ"
      [] rotationOrder = "eOrderYZX" -> "xformOp:rotateYZX"
      [] rotationOrder = "eOrderZXY" -> "xformOp:rotateZXY"
      [] rotationOrder = "eOrderZYX" -> "xformOp:rotateZYX"
      [] rotationOrder = "eOrderSphericXYZ" -> "xformOp:rotateXYZ"

\* readTransform on the node as ResetPivotSetAndConvertAnimation left it
readTransform(n, node, ps, pr) ==
    LET translate == "xformOp:translate"
        pivot == "xformOp:translate:pivot"
        pivotInv == "!invert!xformOp:translate:pivot"
        scale == "xformOp:scale"
        rotate == RotateOpName(node.RotationOrder)
        Sampled(fbxProperty) ==
            getPropertyAnimation(fbxProperty, anim.layer, anim).samples
        translateProp ==
            CreateSampledProperty(pr, AppendProperty(ContextPath(n), translate),
                "Double3", Val("GfVec3d", node.LclTranslation.raw),
                Sampled(node.LclTranslation), NoMetadata, "varying")
        pivotProp ==
            CreateSampledProperty(translateProp,
                AppendProperty(ContextPath(n), pivot),
                "Double3", Val("GfVec3f", node.RotationPivot.raw),
                Sampled(node.RotationPivot), NoMetadata, "varying")
        rotateProp ==
            CreateSampledProperty(pivotProp,
                AppendProperty(ContextPath(n), rotate),
                "Float3", Val("GfVec3f", node.LclRotation.raw),
                Sampled(node.LclRotation), NoMetadata, "varying")
        scaleProp ==
            CreateSampledProperty(rotateProp,
                AppendProperty(ContextPath(n), scale),
                "Float3", Val("GfVec3f", node.LclScaling.raw),
                Sampled(node.LclScaling), NoMetadata, "varying")
        xformOpOrder ==
            CreateProperty(scaleProp,
                AppendProperty(ContextPath(n), "xformOpOrder"),
                "TokenArray",
                Val("VtTokenArray", <<translate, pivot, rotate, scale, pivotInv>>),
                NoMetadata, "uniform")
    IN  Written([GetOrAddPrim(ps, n) EXCEPT ![ContextPath(n)].typeName = "Xform"],
                xformOpOrder,
                IF node.RotationOrder = "eOrderSphericXYZ"
                THEN <<Warning("readTransform", n, "SphericXYZ")>>
                ELSE <<>>)

\* cleanName with FbxNameFixer: the property names of the model hold no
\* character it replaces
cleanName(name) == name

\* the loop of readUserProperties from user property k on
RECURSIVE UserPropertyLoop(_, _, _)
UserPropertyLoop(n, k, pr) ==
    IF k > Len(getUserProperties(n)) THEN pr
    ELSE LET fbxProperty == getUserProperties(n)[k]
             propertyName == "userProperties:" \o cleanName(fbxProperty.name)
         IN  UserPropertyLoop(n, k + 1,
                CreateSampledProperty(pr,
                    AppendProperty(ContextPath(n), propertyName),
                    getSdfTypeName(fbxProperty.type),
                    getValue(fbxProperty.type, fbxProperty.raw),
                    getPropertyAnimation(fbxProperty, anim.layer, anim).samples,
                    getDisplayGroupMetadata("user") @@ Custom, "varying"))

readUserProperties(n, ps, pr) == Written(ps, UserPropertyLoop(n, 1, pr), <<>>)

----------------------------------------------------------------------------
(* Dispatch: the walk over the scene runs, on every node it visits, the    *)
(* reader list registered for the node's attribute kind, in list order, to *)
(* completion; a pass may be repeated.                                     *)

MaxPasses == 2

\* skeletonReader: readSkeleton, readSkeletonAnimation, readImageable
skeletonReader == <<"readSkeleton", "readSkeletonAnimation", "readImageable">>

\* the kinds registered with an empty FbxNodeReaderFnContainer
UnsupportedKinds ==
    {"eNurbs", "ePatch", "eCameraStereo", "eCameraSwitcher", "eLight",
     "eOpticalReference", "eOpticalMarker", "eNurbsCurve",
     "eTrimNurbsSurface", "eBoundary", "eNurbsSurface", "eShape",
     "eLODGroup", "eSubDiv", "eCachedEffect", "eLine"}

\* m_nodeTypeReaderMap as the constructor fills it
m_nodeTypeReaderMap(kind) ==
    CASE kind = "eUnknown" -> <<"readUnknown">>
      [] kind = "eNull" ->
            <<"readTransform", "readImageable", "readUserProperties">>
      [] kind = "eMesh" ->
            <<"readTransform", "readImageable", "readMesh", "readUserProperties">>
      [] kind = "eSkeleton" -> skeletonReader
      [] kind = "eCamera" ->
            <<"readTransform", "readImageable", "readCamera", "readUserProperties">>
      [] kind \in UnsupportedKinds -> <<>>

\* the walk: a node, then its children's subtrees in child order
RECURSIVE Walk(_)
Walk(n) ==
    <<n>> \o Flatten([i \in 1..Len(Children(n)) |-> Walk(Children(n)[i])])

JointVisits == SelectSeq(Walk(SceneRoot), LAMBDA n : IsSkeletonKind(n))

\* every node below the scene root, in walk order
NodeVisits == Tail(Walk(SceneRoot))

NoVisit == [pass |-> 0, index |-> 0, reader |-> 0, order |-> <<>>]

\* the walk's list of nodes is made once, at the start
FirstVisit == [pass |-> 1, index |-> 1, reader |-> 1, order |-> JointVisits]

Visiting == visit.pass \in 1..MaxPasses /\ visit.index \in 1..Len(visit.order)

CurrentNode == visit.order[visit.index]

\* the reader list of the node being visited
CurrentReaders == m_nodeTypeReaderMap(nodes[CurrentNode].kind)

\* the reader that is due on the node being visited
Due(reader) ==
    /\ Visiting
    /\ visit.reader <= Len(CurrentReaders)
    /\ CurrentReaders[visit.reader] = reader

\* the next reader of the list, else the next node, else the next pass
NextVisit ==
    IF visit.reader < Len(CurrentReaders)
    THEN [visit EXCEPT !.reader = @ + 1]
    ELSE IF visit.index < Len(visit.order)
    THEN [visit EXCEPT !.index = @ + 1, !.reader = 1]
    ELSE [visit EXCEPT !.pass = @ + 1, !.index = 1, !.reader = 1]

IdleSink ==
    /\ prims = [p \in {} |-> NewPrim]
    /\ props = [p \in {} |-> NewProperty]
    /\ warnings = <<>>
    /\ visit = NoVisit

Run(written) ==
    /\ prims' = written.prims
    /\ props' = written.props
    /\ warnings' = warnings \o written.warnings
    /\ visit' = NextVisit
    /\ UNCHANGED <<sourceVars, binding, meshOut, propOut>>

ReadSkeleton ==
    /\ Due("readSkeleton")
    /\ Run(readSkeleton(CurrentNode, prims, props))

ReadSkeletonAnimation ==
    /\ Due("readSkeletonAnimation")
    /\ Run(readSkeletonAnimation(CurrentNode, prims, props))

ReadImageable ==
    /\ Due("readImageable")
    /\ Run(readImageable(CurrentNode, prims, props))

ReadUnknown ==
    /\ Due("readUnknown")
    /\ Run(readUnknown(CurrentNode, prims, props))

ReadUserProperties ==
    /\ Due("readUserProperties")
    /\ Run(readUserProperties(CurrentNode, prims, props))

\* readTransform: the node is reset first, then read
ReadTransform ==
    /\ Due("readTransform")
    /\ LET reset == ResetPivotSetAndConvertAnimation(CurrentNode)
           written == readTransform(CurrentNode, reset[CurrentNode], prims, props)
       IN  /\ nodes' = reset
           /\ prims' = written.prims
           /\ props' = written.props
           /\ warnings' = warnings \o written.warnings
    /\ visit' = NextVisit
    /\ UNCHANGED <<skin, mesh, prop, anim, binding, meshOut, propOut>>

\* a node whose kind has an empty reader list: nothing runs
RunNoReader ==
    /\ Visiting
    /\ CurrentReaders = <<>>
    /\ visit' = NextVisit
    /\ UNCHANGED <<sourceVars, binding, meshOut, propOut, prims, props, warnings>>

----------------------------------------------------------------------------
(* Specification of the skin binding extractor.                            *)

JointNames == <<"A", "B", "C", "D">>

NullNode(name, parent) == [name |-> name, parent |-> parent, kind |-> "none"]

\* a scene root with a chain of n joints below it: node k+1 is joint k
JointChain(n) ==
    <<NullNode("RootNode", NoNode)>> \o
    [k \in 1..n |-> [name |-> JointNames[k], parent |-> k, kind |-> "eSkeleton"]]

\* a weight of FLT_EPSILON and a weight of 1.0
Weights == {EpsW, OneW}

\* cluster k of a skin: bound to joint k (node k + 1) or unattached; `slots`
\* is the set of <<cluster, control point>> pairs that carry a weight
ClusterOf(k, attached, slots, w) ==
    LET indices == SetToSeq({c \in 0..(NumControlPoints - 1) : <<k, c>> \in slots})
    IN  [link |-> IF attached[k] THEN k + 1 ELSE NoNode,
         indices |-> indices,
         weights |-> [j \in 1..Len(indices) |-> w[<<k, indices[j]>>]]]

\* a mesh of that many control points, without polygons or layers
MeshOf(controlPointsCount) ==
    [controlPointsCount |-> controlPointsCount, polygons |-> <<>>, layers |-> <<>>]

\* a scene root with n joints directly below it, each the root of its own
\* joint hierarchy: node k+1 is joint k
JointRoots(n) ==
    <<NullNode("RootNode", NoNode)>> \o
    [k \in 1..n |->
        [name |-> JointNames[k], parent |-> SceneRoot, kind |-> "eSkeleton"]]

InitBinding ==
    /\ nodes \in {JointChain(MaxClusters), JointRoots(MaxClusters)}
    /\ mesh = MeshOf(NumControlPoints)
    /\ \E nc \in 0..MaxClusters :
       \E attached \in [1..nc -> BOOLEAN] :
       \E slots \in {S \in SUBSET ((1..nc) \X (0..(NumControlPoints - 1))) :
                        Cardinality(S) <= MaxInfluences} :
       \E w \in [slots -> Weights] :
          skin = [k \in 1..nc |-> ClusterOf(k, attached, slots, w)]
    /\ binding = NoBinding
    /\ meshOut = NoMeshOut
    /\ IdleProperty
    /\ IdleSink

NextBinding == GetBindingData

SpecBinding == InitBinding /\ [][NextBinding]_vars

----------------------------------------------------------------------------
(* Specification of the mesh attribute converters.                         *)

MaxLayers == 2

\* one triangle over three control points
Triangle == <<<<0, 1, 2>>>>

TrianglePoints == Len(Triangle[1])

\* the values of a direct-addressed element
ElementValues == {1, 2}

\* the value table of an index-addressed element
IndexedTable == <<1, 2>>

\* the elements a layer can carry: any mapping mode, any reference mode; a
\* direct element has one value per position, an indexed element one index
\* per position into IndexedTable
LayerElements ==
    {NoElement} \cup
    { [present |-> TRUE, mappingMode |-> mm, referenceMode |-> "eDirect",
       direct |-> d, index |-> <<>>, name |-> ""] :
         mm \in {"eByControlPoint", "eByPolygonVertex"},
         d \in [1..TrianglePoints -> ElementValues] } \cup
    { [present |-> TRUE, mappingMode |-> mm, referenceMode |-> rm,
       direct |-> IndexedTable, index |-> ix, name |-> ""] :
         mm \in {"eByControlPoint", "eByPolygonVertex"},
         rm \in {"eIndex", "eIndexToDirect"},
         ix \in [1..TrianglePoints -> 0..(Len(IndexedTable) - 1)] }

\* a layer that carries the same element for each of its four semantics
LayerOf(element) ==
    [normals |-> element, tangents |-> element, uvs |-> element,
     colors |-> element]

\* the names the UV elements of a mesh carry: the name an element is created
\* with (the empty string) on every layer, or one name per UV set
UVSetNames(n) ==
    {[i \in 1..n |-> ""], [i \in 1..n |-> "map" \o ToString(i)]}

\* a layer whose UV element carries a name
NamedLayer(layer, uvName) == [layer EXCEPT !.uvs.name = uvName]

InitMesh ==
    /\ nodes = JointChain(1)
    /\ skin = <<>>
    /\ binding = NoBinding
    /\ \E n \in 1..MaxLayers :
       \E elements \in [1..n -> LayerElements], uvNames \in UVSetNames(n) :
          mesh = [controlPointsCount |-> TrianglePoints,
                  polygons |-> Triangle,
                  layers |-> [i \in 1..n |->
                                NamedLayer(LayerOf(elements[i]), uvNames[i])]]
    /\ meshOut = NoMeshOut
    /\ IdleProperty
    /\ IdleSink

NextMesh == ReadMeshAttributes

SpecMesh == InitMesh /\ [][NextMesh]_vars

----------------------------------------------------------------------------
(* Specification of the value/type mapper and the animation sampler: one   *)
(* property of any type tag, with or without curves, sampled over a frame  *)
(* range whose start is not after its stop.                                *)

MaxFrame == 2
FirstFrame == 0 - 1

MappedTypes ==
    {"eFbxUChar", "eFbxChar", "eFbxShort", "eFbxUShort", "eFbxLongLong",
     "eFbxULongLong", "eFbxHalfFloat", "eFbxBool", "eFbxInt", "eFbxUInt",
     "eFbxDistance", "eFbxFloat", "eFbxDouble", "eFbxDouble2", "eFbxDouble3",
     "eFbxDouble4", "eFbxDouble4x4", "eFbxTime", "eFbxBlob", "eFbxString"}

\* the tags of EFbxType that no case label names
UnmappedTypes ==
    {"eFbxUndefined", "eFbxEnum", "eFbxEnumM", "eFbxReference",
     "eFbxDateTime"}

PropertyTypes == MappedTypes \cup UnmappedTypes

Tuple(n, first) == [i \in 1..n |-> IF i = 1 THEN first ELSE 1]

\* stored values of a property of each type
RawValues(type) ==
    CASE type \in {"eFbxChar", "eFbxShort", "eFbxInt", "eFbxLongLong"} -> {0 - 1, 1}
      [] type = "eFbxDouble2" -> {Tuple(2, 0), Tuple(2, 1)}
      [] type = "eFbxDouble3" -> {Tuple(3, 0), Tuple(3, 1)}
      [] type = "eFbxDouble4" -> {Tuple(4, 0), Tuple(4, 1)}
      [] type = "eFbxDouble4x4" -> {Tuple(16, 0), Tuple(16, 1)}
      [] type \in {"eFbxBlob", "eFbxString"} -> {"", "abc"}
      [] OTHER -> {0, 1}

\* the curve node a property of the type gets: one channel per component
ChannelsOf(type) == Max(1, ChannelsRead(type))

CurvesOn(n, channels, animCurve) ==
    [channelId \in 1..n |-> IF channelId \in channels THEN animCurve ELSE "none"]

CurveNodes(n) ==
    {NoCurveNode} \cup
    {[present |-> TRUE, curves |-> CurvesOn(n, channels, animCurve)] :
        channels \in {{}, {1}, {n}, 1..n}, animCurve \in {"constant", "ramp"}}

InitProperty ==
    /\ nodes = JointChain(1)
    /\ skin = <<>>
    /\ mesh = MeshOf(0)
    /\ binding = NoBinding
    /\ meshOut = NoMeshOut
    /\ \E type \in PropertyTypes, valid \in BOOLEAN :
       \E raw \in RawValues(type), curveNode \in CurveNodes(ChannelsOf(type)) :
          prop = [type |-> type, raw |-> raw, valid |-> valid,
                  curveNode |-> curveNode]
    /\ \E layer \in BOOLEAN, start \in FirstFrame..MaxFrame :
       \E stop \in start..MaxFrame :
          anim = [layer |-> layer, start |-> start, stop |-> stop]
    /\ propOut = NoPropOut
    /\ IdleSink

NextProperty ==
    \/ GetSdfTypeName
    \/ GetValue
    \/ GetPropertyAnimation
    \/ GetVisibilityAnimation

SpecProperty == InitProperty /\ [][NextProperty]_vars

----------------------------------------------------------------------------
(* Specification of the channel-array mapper under the sampler: a valid    *)
(* property of any type tag on the layer, bound to a curve node of any     *)
(* channel count up to the type's component count (a curve node's channels *)
(* are added one by one and need not match the property it is connected    *)
(* to), sampled over a frame range.                                        *)

InitChannels ==
    /\ nodes = JointChain(1)
    /\ skin = <<>>
    /\ mesh = MeshOf(0)
    /\ binding = NoBinding
    /\ meshOut = NoMeshOut
    /\ \E type \in PropertyTypes :
       \E raw \in RawValues(type), n \in 1..ChannelsOf(type) :
       \E curveNode \in CurveNodes(n) :
          prop = [type |-> type, raw |-> raw, valid |-> TRUE,
                  curveNode |-> curveNode]
    /\ \E start \in FirstFrame..MaxFrame :
       \E stop \in start..MaxFrame :
          anim = [layer |-> TRUE, start |-> start, stop |-> stop]
    /\ propOut = NoPropOut
    /\ IdleSink

NextChannels == GetPropertyAnimation

SpecChannels == InitChannels /\ [][NextChannels]_vars


----------------------------------------------------------------------------
(* Specification of the skeleton readers: a scene of MaxJoints nodes below *)
(* the scene root, each a joint or a null node, walked MaxPasses times.    *)

MaxJoints == 4

SceneNames == <<"A", "B", "C", "D", "E", "F">>

StillVisibility ==
    [name |-> "Visibility", userDefined |-> FALSE, type |-> "eFbxDouble",
     raw |-> 1, valid |-> TRUE, curveNode |-> NoCurveNode]

AnimatedVisibility ==
    [StillVisibility EXCEPT
        !.curveNode = [present |-> TRUE, curves |-> <<"ramp">>]]

AnimatedWeight ==
    [name |-> "weight", userDefined |-> TRUE, type |-> "eFbxDouble",
     raw |-> 1, valid |-> TRUE,
     curveNode |-> [present |-> TRUE, curves |-> <<"constant">>]]

\* the property with a curve node on the layer none of whose channels has
\* a curve
Unkeyed(fbxProperty) ==
    [fbxProperty EXCEPT !.curveNode.curves = [c \in DOMAIN @ |-> "none"]]

\* node k + 1 of a scene: named by its position unless it repeats the name
\* of node 2
SceneNode(k, parent, kind, repeated, animated, unkeyed) ==
    [name |-> IF k + 1 = repeated THEN SceneNames[1] ELSE SceneNames[k],
     parent |-> parent[k], kind |-> kind[k],
     children |-> SetToSeq({c + 1 : c \in {j \in 1..MaxJoints : parent[j] = k + 1}}),
     animated |-> (k + 1) \in animated,
     visibility |-> IF (k + 1) \in unkeyed THEN Unkeyed(AnimatedVisibility)
                    ELSE IF (k + 1) \in animated THEN AnimatedVisibility
                    ELSE StillVisibility,
     properties |-> IF (k + 1) \in unkeyed THEN <<Unkeyed(AnimatedWeight)>>
                    ELSE IF (k + 1) \in animated THEN <<AnimatedWeight>>
                    ELSE <<>>]

\* the parent of node k + 1: one of the two nodes before it
ParentChoices(k) == {p \in {k - 1, k} : p >= 1}

\* the prims the readers of the null nodes have created
NullPrims ==
    LET paths == {RootPath} \cup
                 {ContextPath(n) : n \in {m \in DOMAIN nodes :
                        m # SceneRoot /\ ~IsSkeletonKind(m)}}
    IN  [p \in paths |-> [NewPrim EXCEPT !.typeName = "Xform"]]

\* no animation layer, or a layer with a span of one or of several frames
\* over a scene whose nodes 2 and 3 may be animated; the curve nodes of node
\* 3 may be without curves
Animations ==
    {<<NoAnim, {}, {}>>,
     <<[layer |-> TRUE, start |-> 0, stop |-> 0], {}, {}>>,
     <<[layer |-> TRUE, start |-> 0, stop |-> 0], {2, 3}, {}>>,
     <<[layer |-> TRUE, start |-> 1, stop |-> MaxFrame], {2, 3}, {}>>,
     <<[layer |-> TRUE, start |-> 1, stop |-> MaxFrame], {2, 3}, {3}>>}

\* at most two of the nodes are null nodes, the others are joints
Kinds ==
    {kind \in [1..MaxJoints -> {"eSkeleton", "eNull"}] :
        Cardinality({k \in 1..MaxJoints : kind[k] = "eNull"}) <= 2}

InitSkeleton ==
    /\ \E parent \in [1..MaxJoints -> 1..MaxJoints],
          kind \in Kinds,
          repeated \in {0, 4},
          animation \in Animations :
        /\ \A k \in 1..MaxJoints : parent[k] \in ParentChoices(k)
        /\ nodes = <<[name |-> "RootNode", parent |-> NoNode, kind |-> "none",
                       children |-> SetToSeq({c + 1 : c \in
                            {j \in 1..MaxJoints : parent[j] = SceneRoot}})]>> \o
                   [k \in 1..MaxJoints |->
                        SceneNode(k, parent, kind, repeated, animation[2],
                                  animation[3])]
        /\ anim = animation[1]
    /\ skin = <<>>
    /\ mesh = MeshOf(0)
    /\ prop = NoProperty
    /\ binding = NoBinding
    /\ meshOut = NoMeshOut
    /\ propOut = NoPropOut
    /\ prims = NullPrims
    /\ props = [p \in {} |-> NewProperty]
    /\ warnings = <<>>
    /\ visit = FirstVisit

NextSkeleton ==
    \/ ReadSkeleton
    \/ ReadSkeletonAnimation
    \/ ReadImageable

SpecSkeleton == InitSkeleton /\ [][NextSkeleton]_vars

----------------------------------------------------------------------------
(* Specification of the reader dispatch: a scene of MaxDispatched nodes    *)
(* below the scene root, the last of any registered kind, the others      *)
(* transform-only, joint or unknown nodes, at most one of them with a     *)
(* pre-rotation, walked MaxPasses times.                                   *)

MaxDispatched == 2

InnerKinds == {"eUnknown", "eNull", "eSkeleton"}

LeafKinds == InnerKinds \cup UnsupportedKinds

QuarterTurn == <<90, 0, 0>>

TransformProperty(raw) ==
    [name |-> "Lcl", userDefined |-> FALSE, type |-> "eFbxDouble3",
     raw |-> raw, valid |-> TRUE, curveNode |-> NoCurveNode]

StillWeight == [AnimatedWeight EXCEPT !.curveNode = NoCurveNode]

\* node k + 1 of a dispatched scene
DispatchedNode(k, parent, kind, turned, rotationOrder, animated) ==
    [name |-> SceneNames[k],
     parent |-> parent[k], kind |-> kind[k],
     children |-> SetToSeq({c + 1 : c \in
                    {j \in 1..MaxDispatched : parent[j] = k + 1}}),
     animated |-> animated,
     visibility |-> IF animated THEN AnimatedVisibility ELSE StillVisibility,
     properties |-> IF animated THEN <<AnimatedWeight>> ELSE <<StillWeight>>,
     LclTranslation |-> TransformProperty(<<1, 0, 0>>),
     LclRotation |-> TransformProperty(<<10, 0, 0>>),
     LclScaling |-> TransformProperty(<<1, 1, 1>>),
     RotationPivot |-> TransformProperty(NoRotation),
     PreRotation |-> IF k = turned THEN QuarterTurn ELSE NoRotation,
     RotationOrder |-> rotationOrder]

InitDispatch ==
    /\ \E parent \in [1..MaxDispatched -> 1..MaxDispatched],
          kind \in [1..MaxDispatched -> LeafKinds],
          turned \in 0..MaxDispatched,
          rotationOrder \in {"eOrderZYX", "eOrderSphericXYZ"},
          animated \in BOOLEAN :
        /\ \A k \in 1..MaxDispatched : parent[k] \in ParentChoices(k)
        /\ \A k \in 1..(MaxDispatched - 1) : kind[k] \in InnerKinds
        /\ nodes = <<[name |-> "RootNode", parent |-> NoNode, kind |-> "none",
                       children |-> SetToSeq({c + 1 : c \in
                            {j \in 1..MaxDispatched : parent[j] = SceneRoot}})]>> \o
                   [k \in 1..MaxDispatched |->
                        DispatchedNode(k, parent, kind, turned,
                                       rotationOrder, animated)]
        /\ anim = IF animated
                  THEN [layer |-> TRUE, start |-> 0, stop |-> 1]
                  ELSE NoAnim
    /\ skin = <<>>
    /\ mesh = MeshOf(0)
    /\ prop = NoProperty
    /\ binding = NoBinding
    /\ meshOut = NoMeshOut
    /\ propOut = NoPropOut
    /\ prims = (RootPath :> [NewPrim EXCEPT !.typeName = "Xform"])
    /\ props = [p \in {} |-> NewProperty]
    /\ warnings = <<>>
    /\ visit = [FirstVisit EXCEPT !.order = NodeVisits]

NextDispatch ==
    \/ ReadUnknown
    \/ ReadTransform
    \/ ReadImageable
    \/ ReadUserProperties
    \/ ReadSkeleton
    \/ ReadSkeletonAnimation
    \/ RunNoReader

SpecDispatch == InitDispatch /\ [][NextDispatch]_vars

----------------------------------------------------------------------------
(* Specification of the connections: a context connects attributes of two  *)
(* prims, any number of times, on a sink that returns the existing         *)
(* property for an existing path.                                          *)

ConnectedPrims == {"/ROOT/Material", "/ROOT/Shader"}

ConnectedAttributes == {"inputs:color", "outputs:color"}

ConnectionTypeNames == {"Color3f", "Token"}

ConnectionMetadata == {NoMetadata, getDisplayGroupMetadata("user")}

InitConnection ==
    /\ nodes = JointChain(1)
    /\ skin = <<>>
    /\ mesh = MeshOf(0)
    /\ binding = NoBinding
    /\ meshOut = NoMeshOut
    /\ IdleProperty
    /\ IdleSink

\* context.CreateConnection( ... )
Connect ==
    /\ \E sourcePath \in ConnectedPrims, targetPath \in ConnectedPrims :
       \E sourceAttribute \in ConnectedAttributes,
          targetAttribute \in ConnectedAttributes :
       \E targetTypeName \in ConnectionTypeNames,
          metadata \in ConnectionMetadata :
          props' = CreateConnection(props, sourcePath, sourceAttribute,
                        targetPath, targetAttribute, targetTypeName, metadata)
    /\ UNCHANGED <<sourceVars, binding, meshOut, propOut, prims, warnings, visit>>

NextConnection == Connect

SpecConnection == InitConnection /\ [][NextConnection]_vars


----------------------------------------------------------------------------
(* Properties of the skin binding extractor.                               *)

Returned == binding.status = "returned"

\* the entries of control point cp in the returned flat arrays
BlockPositions(cp) ==
    (cp * binding.influencesPerVertex + 1)..((cp + 1) * binding.influencesPerVertex)

BlockWeights(cp) ==
    [i \in 1..binding.influencesPerVertex |->
        binding.perVertexWeights[cp * binding.influencesPerVertex + i]]

BlockIndices(cp) ==
    [i \in 1..binding.influencesPerVertex |->
        binding.perVertexInfluences[cp * binding.influencesPerVertex + i]]

\* what the skin says, read off the input alone: the <<cluster, position>>
\* pairs of attached clusters that list control point cp
GivenEntries(cp) ==
    {e \in (1..Len(skin)) \X (1..NumControlPoints) :
        /\ skin[e[1]].link # NoNode
        /\ e[2] <= Len(skin[e[1]].indices)
        /\ skin[e[1]].indices[e[2]] = cp}

GivenWeight(e) == skin[e[1]].weights[e[2]]

\* the index a cluster's joint gets in the joint-name list
JointIndexOf(k) == Cardinality({j \in 1..(k - 1) : skin[j].link # NoNode})

GivenSum(cp) ==
    SumSeq([k \in 1..Len(skin) |->
        SumSeq([j \in 1..Len(skin[k].indices) |->
            IF skin[k].link # NoNode /\ skin[k].indices[j] = cp
            THEN skin[k].weights[j] ELSE 0])])

SumsToOne(cp) == Abs(SumSeq(BlockWeights(cp)) - NormOne) <= Tolerance

AllZero(cp) == \A i \in 1..binding.influencesPerVertex : BlockWeights(cp)[i] = 0

C2_RectangularSorted ==
    (Returned /\ Len(skin) >= 1) =>
        /\ Len(binding.perVertexInfluences)
              = mesh.controlPointsCount * binding.influencesPerVertex
        /\ Len(binding.perVertexWeights)
              = mesh.controlPointsCount * binding.influencesPerVertex
        /\ \A cp \in ControlPoints :
              /\ \A i \in 1..(binding.influencesPerVertex - 1) :
                    BlockWeights(cp)[i] >= BlockWeights(cp)[i + 1]
              /\ \A e \in GivenEntries(cp) :
                    \E i \in 1..binding.influencesPerVertex :
                        BlockIndices(cp)[i] = JointIndexOf(e[1])

\* C2 witness: a control point weighted FLT_EPSILON by the first joint and
\* 1.0 by the second, so that sorting must swap the two influences.
C2_Witness ==
    /\ Returned
    /\ Len(skin) = 2
    /\ \E cp \in ControlPoints :
          /\ \E e \in GivenEntries(cp) : e[1] = 1 /\ GivenWeight(e) = EpsW
          /\ \E e \in GivenEntries(cp) : e[1] = 2 /\ GivenWeight(e) = OneW
          /\ BlockIndices(cp) = <<1, 0>>
          /\ BlockWeights(cp)[1] > BlockWeights(cp)[2]

CountOf(v, s) == Cardinality({i \in 1..Len(s) : s[i] = v})

\* C3: influencesPerVertex is the largest number of entries any control point
\* gets from the attached clusters, and a control point with fewer entries
\* holds its own joints plus (joint 0, weight 0) entries up to that size.
C3_ElementSizeAndPadding ==
    Returned =>
        /\ \A cp \in ControlPoints :
              Cardinality(GivenEntries(cp)) <= binding.influencesPerVertex
        /\ (Len(skin) >= 1 /\ mesh.controlPointsCount > 0) =>
              \E cp \in ControlPoints :
                 Cardinality(GivenEntries(cp)) = binding.influencesPerVertex
        /\ \A cp \in ControlPoints :
              LET given == GivenEntries(cp)
                  padding == binding.influencesPerVertex - Cardinality(given)
              IN  /\ \A v \in 0..Len(skin) :
                        CountOf(v, BlockIndices(cp))
                           = Cardinality({e \in given : JointIndexOf(e[1]) = v})
                             + (IF v = 0 THEN padding ELSE 0)
                  /\ CountOf(0, BlockWeights(cp)) >= padding

\* C3 witness: cluster A weights control points 0 and 1, cluster B weights
\* control point 1: elementSize is 2, control point 0 holds one real and one
\* zero influence, control point 1 two real ones, control point 2 only zeros.
C3_Witness ==
    /\ Returned
    /\ Len(skin) = 2
    /\ skin[1].link # NoNode /\ skin[1].indices = <<0, 1>>
    /\ skin[1].weights = <<OneW, OneW>>
    /\ skin[2].link # NoNode /\ skin[2].indices = <<1>>
    /\ skin[2].weights = <<OneW>>
    /\ binding.influencesPerVertex = 2
    /\ binding.perVertexInfluences = <<0, 0, 1, 0, 0, 0>>
    /\ binding.perVertexWeights = <<NormOne, 0, NormOne \div 2, NormOne \div 2, 0, 0>>

EmptyArrays ==
    /\ binding.names = <<>>
    /\ binding.perVertexInfluences = <<>>
    /\ binding.perVertexWeights = <<>>
    /\ binding.influencesPerVertex = 0

\* C14 as stated: for a skin with zero clusters the arrays are empty,
\* influencesPerVertex is 0 and the skeleton path is the path of the scene
\* root.
C14_AsStated ==
    (binding.status # "none" /\ Len(skin) = 0) =>
        /\ Returned
        /\ EmptyArrays
        /\ binding.pathToSkeleton \in {"/", "/ROOT"}

\* C14 amended: for a skin with zero clusters getBindingData returns empty
\* joint-name, joint-index and joint-weight arrays, influencesPerVertex 0,
\* and the empty path as the skeleton path.
C14_ZeroClustersAllEmpty ==
    (binding.status # "none" /\ Len(skin) = 0) =>
        /\ Returned
        /\ EmptyArrays
        /\ binding.pathToSkeleton = ""

\* C14 witness: getBindingData has returned for a skin without clusters on
\* a mesh that has control points.
C14_Witness ==
    /\ Len(skin) = 0
    /\ mesh.controlPointsCount > 0
    /\ Returned
    /\ binding.perVertexWeights = <<>>

\* the clusters without a bound joint
Unattached == {k \in 1..Len(skin) : skin[k].link = NoNode}

\* how often the clusters, attached or not, list control point cp
ListedCount(cp) ==
    Cardinality({e \in (1..Len(skin)) \X (1..NumControlPoints) :
        /\ e[2] <= Len(skin[e[1]].indices)
        /\ skin[e[1]].indices[e[2]] = cp})

\* first part: when getBindingData returns, an unattached cluster
\* has added no joint name and no influence.
C15_UnattachedAddsNothing ==
    (Returned /\ Unattached # {}) =>
        /\ Len(binding.names) = Len(skin) - Cardinality(Unattached)
        /\ \A cp \in ControlPoints :
              Cardinality({i \in 1..binding.influencesPerVertex :
                              BlockWeights(cp)[i] # 0})
                 <= Cardinality(GivenEntries(cp))

\* second part: when getBindingData returns, elementSize counts
\* the control points listed by unattached clusters.
C15_ElementSizeCountsUnattached ==
    (Returned /\ Unattached # {}) =>
        \A cp \in ControlPoints :
            ListedCount(cp) <= binding.influencesPerVertex

\* getBindingData returns whichever cluster is
\* unattached.
C15_Returns ==
    (binding.status # "none" /\ Unattached # {}) => Returned

\* C15: with a cluster that has no bound joint, getBindingData returns; the
\* cluster adds no joint name and no influence to any control point, and
\* the control points it lists still count towards elementSize.
C15_UnattachedStillCounted ==
    /\ C15_Returns
    /\ C15_UnattachedAddsNothing
    /\ C15_ElementSizeCountsUnattached

\* the topmost node reached from n through an unbroken chain of joint-kind
\* parents
RECURSIVE TopmostJoint(_)
TopmostJoint(n) ==
    IF nodes[n].parent # NoNode /\ IsSkeletonKind(nodes[n].parent)
    THEN TopmostJoint(nodes[n].parent)
    ELSE n

\* the names from below the scene root down to n, joined into a path
RECURSIVE PathBelowSceneRoot(_)
PathBelowSceneRoot(n) ==
    IF nodes[n].parent = NoNode \/ nodes[n].parent = SceneRoot
    THEN nodes[n].name
    ELSE AppendPath(PathBelowSceneRoot(nodes[n].parent), nodes[n].name)

\* C23: for a skin with at least one cluster, getBindingData resolves the
\* skeleton root without fault, as the topmost node reached from the first
\* cluster's joint through joint-kind parents; a first cluster without a
\* bound joint is handled by skipping or a fallback, so the call returns.
C23_RootResolvedWithoutFault ==
    (binding.status # "none" /\ Len(skin) > 0) =>
        IF skin[1].link = NoNode
        THEN Returned
        ELSE Returned =>
                binding.pathToSkeleton =
                    AppendPath("/ROOT",
                        PathBelowSceneRoot(TopmostJoint(skin[1].link)))


\* n or one of its ancestors carries that name
RECURSIVE ReachesName(_, _)
ReachesName(n, name) ==
    \/ nodes[n].name = name
    \/ nodes[n].parent # NoNode /\ ReachesName(nodes[n].parent, name)

\* C24: with the skeleton root resolved from an attached first cluster,
\* building the path token of every attached cluster's joint terminates:
\* the walk up from the joint reaches a node named like the resolved root,
\* also for a joint of another joint hierarchy, and getBindingData returns.
C24_TokenWalkReachesRoot ==
    (binding.status # "none" /\ Len(skin) > 0 /\ skin[1].link # NoNode) =>
        /\ \A k \in 1..Len(skin) :
              skin[k].link # NoNode =>
                  ReachesName(skin[k].link,
                              nodes[TopmostJoint(skin[1].link)].name)
        /\ Returned


----------------------------------------------------------------------------
(* Properties of the mesh attribute converters.                            *)

\* the direct-addressed element that holds, at every position, the value an
\* index-addressed element maps that position to
DirectForm(element) ==
    IF element.present /\ element.referenceMode \in {"eIndex", "eIndexToDirect"}
    THEN [element EXCEPT
            !.referenceMode = "eDirect",
            !.direct = [p \in 1..Len(element.index) |->
                           GetAt(element.direct, element.index[p])],
            !.index = <<>>]
    ELSE element

DirectMesh(m) ==
    [m EXCEPT !.layers =
        [i \in 1..Len(m.layers) |->
            [normals |-> DirectForm(m.layers[i].normals),
             tangents |-> DirectForm(m.layers[i].tangents),
             uvs |-> DirectForm(m.layers[i].uvs),
             colors |-> DirectForm(m.layers[i].colors)]]]

\* the reader's layer test gives the same verdict on both forms of every
\* element, so that both meshes have the same layers resolved
SameNormalsResolved ==
    \A i \in 1..Len(mesh.layers) :
        LET e == mesh.layers[i].normals
        IN  e.present => (IsPerPolygonVertex(e) <=> IsPerPolygonVertex(DirectForm(e)))

SameTangentsResolved ==
    \A i \in 1..Len(mesh.layers) :
        LET e == mesh.layers[i].tangents
        IN  e.present => (IsPerPolygonVertex(e) <=> IsPerPolygonVertex(DirectForm(e)))

SameUVsResolved ==
    \A i \in 1..Len(mesh.layers) :
        LET e == mesh.layers[i].uvs
        IN  e.present => (IsUVLayer(e) <=> IsUVLayer(DirectForm(e)))

SameColorsResolved ==
    \A i \in 1..Len(mesh.layers) :
        LET e == mesh.layers[i].colors
        IN  e.present => (IsVertexColorLayer(e) <=> IsVertexColorLayer(DirectForm(e)))

C4_Normals ==
    (meshOut.status = "read" /\ SameNormalsResolved)
    => meshOut.normals = meshNormals(DirectMesh(mesh))

C4_Tangents ==
    (meshOut.status = "read" /\ SameTangentsResolved)
    => meshOut.tangents = meshTangents(DirectMesh(mesh))

C4_UVs ==
    (meshOut.status = "read" /\ SameUVsResolved)
    => meshOut.uvs = UVProperties(DirectMesh(mesh))

C4_VertexColors ==
    (meshOut.status = "read" /\ SameColorsResolved)
    => meshOut.colors = meshVertexColors(DirectMesh(mesh))

\* C4: for normals, tangents, UVs and vertex colours, a mesh whose layers are
\* index-addressed and the mesh whose layers are direct-addressed with the
\* same value at every position resolve to the same value sequences.
C4_DirectAndIndexedAgree ==
    /\ C4_Normals
    /\ C4_Tangents
    /\ C4_UVs
    /\ C4_VertexColors

\* the layers, in layer order, whose normals (tangents) are mapped by
\* polygon vertex and not addressed by eIndex
LayersWithNormals ==
    SelectSeq([i \in 1..Len(mesh.layers) |-> i],
              LAMBDA i : /\ mesh.layers[i].normals.present
                         /\ mesh.layers[i].normals.mappingMode = "eByPolygonVertex"
                         /\ mesh.layers[i].normals.referenceMode # "eIndex")

LayersWithTangents ==
    SelectSeq([i \in 1..Len(mesh.layers) |-> i],
              LAMBDA i : /\ mesh.layers[i].tangents.present
                         /\ mesh.layers[i].tangents.mappingMode = "eByPolygonVertex"
                         /\ mesh.layers[i].tangents.referenceMode # "eIndex")

\* the layers whose vertex colours are mapped by control point or addressed
\* by eIndex
LayersWithColors ==
    SelectSeq([i \in 1..Len(mesh.layers) |-> i],
              LAMBDA i : /\ mesh.layers[i].colors.present
                         /\ \/ mesh.layers[i].colors.mappingMode = "eByControlPoint"
                            \/ mesh.layers[i].colors.referenceMode = "eIndex")

\* an element read at every polygon vertex, by its reference mode
AtPolygonVertices(element) ==
    [p \in 1..Len(Flatten(mesh.polygons)) |->
        IF element.referenceMode = "eDirect"
        THEN GetAt(element.direct, p - 1)
        ELSE GetAt(element.direct, GetAt(element.index, p - 1))]

AtControlPoints(element) ==
    [i \in 1..mesh.controlPointsCount |-> GetAt(element.direct, i - 1)]

C13_Normals ==
    Len(LayersWithNormals) >= 2 =>
        meshOut.normals =
            AtPolygonVertices(mesh.layers[LayersWithNormals[1]].normals)

C13_Tangents ==
    Len(LayersWithTangents) >= 2 =>
        meshOut.tangents =
            AtPolygonVertices(mesh.layers[LayersWithTangents[1]].tangents)

C13_VertexColors ==
    Len(LayersWithColors) >= 2 =>
        meshOut.colors =
            AtControlPoints(mesh.layers[LayersWithColors[1]].colors)

\* C13: when several layers of a mesh carry normals (tangents, vertex
\* colours) that pass the reader's mapping and addressing test, the values
\* read are those of the first such layer in layer order.
C13_FirstMatchingLayerUsed ==
    meshOut.status = "read" =>
        C13_Normals /\ C13_Tangents /\ C13_VertexColors

\* C21: within the reader pass of one mesh node, two different UV layers
\* never produce the same target property path: the primvars:st<suffix>
\* names readMesh creates for the accepted UV layers are pairwise different.
C21_UVLayersGetDistinctPaths ==
    meshOut.status = "read" =>
        \A j, k \in DOMAIN meshOut.uvs :
            j # k => meshOut.uvs[j].name # meshOut.uvs[k].name

----------------------------------------------------------------------------
(* Properties of the animation sampler and the value/type mapper           *)
(* (SpecProperty).                                                         *)

Ran(step) == step \in propOut.done

\* the integer frames of the range, in increasing order
FramesOfRange == [i \in 1..(anim.stop - anim.start + 1) |-> anim.start + i - 1]

\* the property's channels evaluated at a frame
ChannelsAtFrame(frame) ==
    [c \in 1..Len(prop.curveNode.curves) |->
        CASE prop.curveNode.curves[c] = "constant" -> 1
          [] prop.curveNode.curves[c] = "ramp" -> frame
          [] OTHER -> 0]

VisibilityAtFrame(frame) ==
    IF prop.curveNode.present /\ prop.curveNode.curves[1] # "none"
    THEN ChannelsAtFrame(frame)[1]
    ELSE prop.raw

TokenOfVisibility(v) == IF v > 0 THEN "inherited" ELSE "invisible"

ProducedSamples ==
    /\ Ran("getPropertyAnimation")
    /\ propOut.animation.undefined \/ propOut.animation.samples # <<>>

C6_PropertyOverload ==
    ProducedSamples =>
        /\ ~propOut.animation.undefined
        /\ Len(propOut.animation.samples) = anim.stop - anim.start + 1
        /\ \A i \in 1..Len(propOut.animation.samples) :
            /\ propOut.animation.samples[i][1] = FramesOfRange[i]
            /\ propOut.animation.samples[i][2] =
                  getValueOfChannels(prop.type, ChannelsAtFrame(FramesOfRange[i]))

C6_FunctionOverload ==
    (Ran("visibility") /\ anim.layer) =>
        /\ Len(propOut.visibilitySamples) = anim.stop - anim.start + 1
        /\ \A i \in 1..Len(propOut.visibilitySamples) :
            /\ propOut.visibilitySamples[i][1] = FramesOfRange[i]
            /\ propOut.visibilitySamples[i][2] =
                  Val("TfToken", TokenOfVisibility(VisibilityAtFrame(FramesOfRange[i])))

\* C6: when either overload of the sampler produces samples for a range
\* [start, stop] with start <= stop, there are exactly stop - start + 1 of
\* them, one per integer frame in increasing order, each with the value
\* evaluated at its frame; equal neighbours are all kept.
C6_OneSamplePerFrame == C6_PropertyOverload /\ C6_FunctionOverload

\* C6 witness: both overloads have sampled a constant curve over a range of
\* several frames and kept the equal samples.
C6_Witness ==
    /\ ProducedSamples
    /\ Ran("visibility") /\ anim.layer
    /\ anim.stop > anim.start
    /\ prop.curveNode.curves[1] = "constant"
    /\ Len(propOut.animation.samples) > 1
    /\ propOut.animation.samples[1][2] = propOut.animation.samples[2][2]
    /\ Len(propOut.visibilitySamples) > 1
    /\ propOut.visibilitySamples[1][2] = propOut.visibilitySamples[2][2]

\* C10: for a property type that no case of the mapper names, the type
\* lookup returns the token type and the value extraction returns the
\* sentinel token; neither fails.
C10_UnmappedGivesSentinel ==
    prop.type \in UnmappedTypes =>
        /\ Ran("getSdfTypeName") => propOut.typeName = "Token"
        /\ Ran("getValue") => propOut.value = Val("TfToken", "UNKNOWN TYPE")

\* C10 witness: both lookups have run on a property of an unmapped type.
C10_Witness ==
    /\ prop.type \in UnmappedTypes
    /\ Ran("getSdfTypeName")
    /\ Ran("getValue")
    /\ propOut.typeName = "Token"
    /\ propOut.value.held = "TfToken"

\* the C++ type a value of each SdfValueTypeNames entry holds
HeldBy(typeName) ==
    CASE typeName = "UChar" -> "uint8_t"
      [] typeName = "Int" -> "int32_t"
      [] typeName = "UInt" -> "uint32_t"
      [] typeName = "Int64" -> "int64_t"
      [] typeName = "UInt64" -> "uint64_t"
      [] typeName = "Half" -> "GfHalf"
      [] typeName = "Bool" -> "bool"
      [] typeName = "Float" -> "float"
      [] typeName = "Double" -> "double"
      [] typeName = "Double2" -> "GfVec2d"
      [] typeName = "Double3" -> "GfVec3d"
      [] typeName = "Double4" -> "GfVec4d"
      [] typeName = "Float2" -> "GfVec2f"
      [] typeName = "Float3" -> "GfVec3f"
      [] typeName = "TokenArray" -> "VtTokenArray"
      [] typeName = "Matrix4d" -> "GfMatrix4d"
      [] typeName = "TimeCode" -> "SdfTimeCode"
      [] typeName = "Token" -> "TfToken"
      [] OTHER -> ""

SampledValues ==
    {propOut.animation.samples[i][2] :
        i \in 1..Len(propOut.animation.samples)}

C11_DefaultHasDeclaredType ==
    (Ran("getSdfTypeName") /\ Ran("getValue")) =>
        propOut.value.held = HeldBy(propOut.typeName)

C11_SamplesHaveDeclaredType ==
    (Ran("getSdfTypeName") /\ Ran("getPropertyAnimation")
        /\ ~propOut.animation.undefined) =>
        \A v \in SampledValues : v.held = HeldBy(propOut.typeName)

\* C11: for every type tag, the value getValue() extracts and every value
\* getValue( animChannels ) extracts hold the type getSdfTypeName() declares,
\* so a property's default and its time samples have one type.
C11_OneTargetType ==
    C11_DefaultHasDeclaredType /\ C11_SamplesHaveDeclaredType

Narrow8And16 == {"eFbxChar", "eFbxUChar", "eFbxShort", "eFbxUShort"}

WidenedName(type) ==
    IF type \in {"eFbxChar", "eFbxShort"} THEN "Int" ELSE "UInt"

\* C12: every integer type narrower than 32 bits (8 and 16 bit, signed and
\* unsigned) is declared as, and extracted as, the 32-bit integer of the
\* same signedness.
C12_NarrowIntegersWiden ==
    prop.type \in Narrow8And16 =>
        /\ Ran("getSdfTypeName") => propOut.typeName = WidenedName(prop.type)
        /\ Ran("getValue") =>
               propOut.value.held = HeldBy(WidenedName(prop.type))

\* the property is bound to a curve on the layer
CurveBound ==
    /\ anim.layer
    /\ prop.valid
    /\ prop.curveNode.present
    /\ \E c \in 1..Len(prop.curveNode.curves) : prop.curveNode.curves[c] # "none"

\* C16: the sampler of a source property returns the empty sequence exactly
\* when the layer is absent, the property is invalid or has no curve node
\* on the layer, or no channel of the curve node has a curve; in every
\* other case (start <= stop) it returns a non-empty sequence.
C16_EmptyExactlyWhenUnbound ==
    Ran("getPropertyAnimation") =>
        /\ ~CurveBound => propOut.animation = [undefined |-> FALSE, samples |-> <<>>]
        /\ CurveBound => /\ ~propOut.animation.undefined
                         /\ propOut.animation.samples # <<>>

\* C16 witness: a two-channel property with a curve on its second channel
\* only has been sampled over a one-frame range and has one sample.
C16_Witness ==
    /\ Ran("getPropertyAnimation")
    /\ CurveBound
    /\ anim.start = anim.stop
    /\ prop.curveNode.curves = <<"none", "ramp">>
    /\ Len(propOut.animation.samples) = 1

\* C25: the channel-array mapper never reads a channel index at or beyond
\* the length of the array the sampler gives it: whenever the sampler has
\* converted the channels of a curve node, the number of channels read for
\* the property's type is at most the curve node's channel count, and no
\* sample is the outcome of a read past the end.
C25_ChannelReadsWithinArray ==
    (Ran("getPropertyAnimation") /\ CurveBound) =>
        /\ ChannelsRead(prop.type) <= GetChannelsCount(prop.curveNode)
        /\ ~propOut.animation.undefined
        /\ \A i \in 1..Len(propOut.animation.samples) :
              propOut.animation.samples[i][2] # Val(Fault, Fault)


----------------------------------------------------------------------------
(* Properties of the skeleton readers (SpecSkeleton).                      *)

\* the joints whose parent is no joint: the ones the readers work on
RootJoints ==
    {n \in DOMAIN nodes :
        /\ nodes[n].kind = "eSkeleton"
        /\ nodes[n].parent # NoNode
        /\ nodes[nodes[n].parent].kind # "eSkeleton"}

PositionOf(n) == CHOOSE i \in 1..Len(visit.order) : visit.order[i] = n

PlaceInList(reader) ==
    CHOOSE i \in 1..Len(skeletonReader) : skeletonReader[i] = reader

\* how many times the reader has run on the node
RunsOf(reader, n) ==
    LET position == PositionOf(n)
    IN  (visit.pass - 1) +
        (IF \/ position < visit.index
            \/ position = visit.index /\ PlaceInList(reader) < visit.reader
         THEN 1 ELSE 0)

Occurrences(list, x) == Cardinality({i \in 1..Len(list) : list[i] = x})

SkeletonPrimPath(n) == ParentPath(n) \o "/" \o nodes[n].name

AnimationPrimPath(n) == ParentPath(n) \o "/Animation" \o nodes[n].name

\* C5: once readSkeleton and readSkeletonAnimation have run on a root joint,
\* in however many passes, the parent prim's child list holds the
\* skeleton's name and the animation prim's name at most once each.
C5_ChildNamesAtMostOnce ==
    \A n \in RootJoints :
        RunsOf("readSkeleton", n) >= 1 =>
            /\ Occurrences(prims[ParentPath(n)].children, nodes[n].name) <= 1
            /\ Occurrences(prims[ParentPath(n)].children,
                           "Animation" \o nodes[n].name) <= 1

\* the joints from the root joint down to a joint, by parent links
RECURSIVE NamesFromRoot(_, _)
NamesFromRoot(joint, root) ==
    IF joint = root THEN nodes[joint].name
    ELSE NamesFromRoot(nodes[joint].parent, root) \o "/" \o nodes[joint].name

\* the root joint's subtree in depth-first pre-order and child order,
\* without the children that are no joints and what is below them
RECURSIVE JointsBelow(_)
JointsBelow(n) ==
    <<n>> \o Flatten([i \in 1..Len(nodes[n].children) |->
                IF nodes[nodes[n].children[i]].kind = "eSkeleton"
                THEN JointsBelow(nodes[n].children[i])
                ELSE <<>>])

\* C8: the path token of every joint of a collected hierarchy is the names
\* from the topmost joint down to the joint, joined by '/'.
C8_TokensFollowAncestry ==
    \A n \in RootJoints :
        RunsOf("readSkeleton", n) >= 1 =>
            props[ContextPath(n) \o ".joints"].value.val =
                [i \in 1..Len(JointsBelow(n)) |->
                    NamesFromRoot(JointsBelow(n)[i], n)]

\* the children of collected joints that are no joints
BreakingChildren(n) ==
    LET joints == JointsBelow(n)
    IN  {c \in DOMAIN nodes :
            /\ nodes[c].kind # "eSkeleton"
            /\ \E i \in 1..Len(joints) : nodes[c].parent = joints[i]}

\* every node between the joint and the root joint is a joint
RECURSIVE JointsAllTheWay(_, _)
JointsAllTheWay(joint, root) ==
    /\ nodes[joint].kind = "eSkeleton"
    /\ joint = root \/ JointsAllTheWay(nodes[joint].parent, root)

WarningsAbout(reader, c) ==
    Cardinality({i \in 1..Len(warnings) :
        warnings[i] = [reader |-> reader, node |-> c, what |-> "not a skeleton"]})

JointsOfMatrices(path) ==
    [i \in 1..Len(props[path].value.val) |-> props[path].value.val[i][1]]

C9_AfterReadSkeleton ==
    \A n \in RootJoints :
        RunsOf("readSkeleton", n) >= 1 =>
            LET collected == JointsOfMatrices(ContextPath(n) \o ".restTransforms")
            IN  /\ collected = JointsBelow(n)
                /\ \A i \in 1..Len(collected) : JointsAllTheWay(collected[i], n)
                /\ \A c \in BreakingChildren(n) :
                        WarningsAbout("readSkeleton", c) = RunsOf("readSkeleton", n)

C9_AfterReadSkeletonAnimation ==
    \A n \in RootJoints :
        (RunsOf("readSkeletonAnimation", n) >= 1 /\ anim.layer) =>
            /\ JointsOfMatrices(AnimationPrimPath(n) \o ".translations")
                    = JointsBelow(n)
            /\ \A c \in BreakingChildren(n) :
                    WarningsAbout("readSkeletonAnimation", c)
                        = RunsOf("readSkeletonAnimation", n)

\* C9: the joint list of readSkeleton and of readSkeletonAnimation is the
\* root joint's subtree in depth-first pre-order and child order without the
\* children that are no joints and their descendants, and each collection
\* raises one warning for each such child.
C9_PreOrderWithoutNonJoints ==
    C9_AfterReadSkeleton /\ C9_AfterReadSkeletonAnimation

\* C9 witness: both readers have run once on a root joint that has a joint
\* below it and a child that is no joint with a joint below that child.
C9_Witness ==
    \E n \in RootJoints :
        /\ RunsOf("readSkeletonAnimation", n) = 1 /\ anim.layer
        /\ Len(JointsBelow(n)) >= 2
        /\ JointsOfMatrices(ContextPath(n) \o ".restTransforms") = JointsBelow(n)
        /\ \E c \in BreakingChildren(n) :
            /\ WarningsAbout("readSkeleton", c) = 1
            /\ WarningsAbout("readSkeletonAnimation", c) = 1
            /\ \E below \in DOMAIN nodes :
                nodes[below].parent = c /\ nodes[below].kind = "eSkeleton"

\* the scale samples of the frame loop: one per frame, all joints at 1
ScalesOf(n) ==
    [frame \in 1..(anim.stop - anim.start + 1) |->
        <<anim.start + frame - 1,
          Val("VtVec3hArray", [j \in 1..Len(JointsBelow(n)) |-> <<1, 1, 1>>])>>]

AllEqualFirst(samples) ==
    \A i \in 1..Len(samples) : samples[i][2] = samples[1][2]

\* C7: when every per-frame scale sample equals the first, the scales
\* property has its default value and no time samples; it has the per-frame
\* samples only when one differs from the first.
C7_ScalesCollapse ==
    \A n \in RootJoints :
        (RunsOf("readSkeletonAnimation", n) >= 1 /\ anim.layer) =>
            LET scales == props[AnimationPrimPath(n) \o ".scales"]
            IN  /\ scales.value = ScalesOf(n)[1][2]
                /\ AllEqualFirst(ScalesOf(n)) => scales.timeSamples = <<>>
                /\ ~AllEqualFirst(ScalesOf(n)) => scales.timeSamples = ScalesOf(n)

\* C7 witness: a root joint sampled over several frames has as many
\* translation samples as frames and a scales property without samples.
C7_Witness ==
    \E n \in RootJoints :
        /\ RunsOf("readSkeletonAnimation", n) >= 1 /\ anim.layer
        /\ anim.stop > anim.start
        /\ Len(props[AnimationPrimPath(n) \o ".translations"].timeSamples)
                = anim.stop - anim.start + 1
        /\ props[AnimationPrimPath(n) \o ".scales"].timeSamples = <<>>
        /\ props[AnimationPrimPath(n) \o ".scales"].value.held = "VtVec3hArray"

\* the time codes of a property's time samples, in stored order
TimesOf(path) ==
    [i \in 1..Len(props[path].timeSamples) |-> props[path].timeSamples[i][1]]

\* C17: in every property the readers have written (node properties, the
\* translations, rotations and scales of a skeleton animation, the
\* aggregated user properties of the joints), the time samples are in
\* strictly increasing time order, so no time code occurs twice.
C17_TimeSamplesStrictlyOrdered ==
    \A path \in DOMAIN props :
        \A i \in 1..(Len(TimesOf(path)) - 1) :
            TimesOf(path)[i] < TimesOf(path)[i + 1]

\* C17 witness: over a span of several frames, the translations of an
\* animation prim, a user property aggregated from two joints and the
\* visibility of a joint each hold one sample per frame.
C17_Witness ==
    \E n \in RootJoints :
        /\ anim.layer /\ anim.stop > anim.start
        /\ AnimationPrimPath(n) \o ".translations" \in DOMAIN props
        /\ Len(TimesOf(AnimationPrimPath(n) \o ".translations"))
              = anim.stop - anim.start + 1
        /\ AnimationPrimPath(n) \o ".userProperties:weight" \in DOMAIN props
        /\ Len(TimesOf(AnimationPrimPath(n) \o ".userProperties:weight"))
              = anim.stop - anim.start + 1
        /\ Len(props[AnimationPrimPath(n)
                      \o ".userProperties:weight"].value.val) = 2
        /\ SkeletonPrimPath(n) \o ".visibility" \in DOMAIN props
        /\ Len(TimesOf(SkeletonPrimPath(n) \o ".visibility"))
              = anim.stop - anim.start + 1

\* the joint tokens readSkeleton wrote for root joint n
JointTokens(n) == props[SkeletonPrimPath(n) \o ".joints"].value.val

\* C20: in the joint token list written for a collected hierarchy, the
\* tokens of distinct joints are pairwise different, also when a descendant
\* joint has the name of the root joint or of another ancestor.
C20_TokensPairwiseDifferent ==
    \A n \in RootJoints :
        (SkeletonPrimPath(n) \o ".joints") \in DOMAIN props =>
            \A i, j \in 1..Len(JointTokens(n)) :
                i # j => JointTokens(n)[i] # JointTokens(n)[j]

----------------------------------------------------------------------------
(* Properties of the reader dispatch (SpecDispatch).                       *)

\* the walk has run the reader list of node n at least once
Dispatched(n) ==
    \E i \in 1..Len(visit.order) :
        /\ visit.order[i] = n
        /\ visit.pass > 1 \/ i < visit.index

UnsupportedNodes == {n \in DOMAIN nodes : nodes[n].kind \in UnsupportedKinds}

\* the names of the properties the readers of a node write on its prim
ReaderPropertyNames ==
    {"visibility", "purpose", "generated:visibility", "xformOp:translate",
     "xformOp:translate:pivot", "xformOp:scale", "xformOpOrder", "joints",
     "restTransforms", "bindTransforms", "skel:animationSource",
     "userProperties:weight"}
    \cup {"xformOp:rotate" \o order :
            order \in {"XYZ", "XZY", "YXZ", "YZX", "ZXY", "ZYX"}}

C18_EmptyReaderList ==
    \A kind \in UnsupportedKinds : m_nodeTypeReaderMap(kind) = <<>>

C18_NoProperty ==
    \A n \in UnsupportedNodes :
        \A name \in ReaderPropertyNames :
            (ContextPath(n) \o "." \o name) \notin DOMAIN props

\* a step of the dispatch on a node of an unsupported kind leaves the
\* properties and the warnings as they are
C18_NoError ==
    (Visiting /\ CurrentNode \in UnsupportedNodes) =>
        (props' = props /\ warnings' = warnings)

C18_DefaultMetadata ==
    \A n \in UnsupportedNodes :
        Dispatched(n) =>
            /\ ContextPath(n) \in DOMAIN prims
            /\ DOMAIN prims[ContextPath(n)].metadata
                  = {"active", "hidden", "comment"}
            /\ prims[ContextPath(n)].metadata["active"] = "true"
            /\ prims[ContextPath(n)].metadata["hidden"] = "false"

C18_UnsupportedKindsGetNothing ==
    /\ [](C18_EmptyReaderList /\ C18_NoProperty)
    /\ [][C18_NoError]_vars

\* C19: no step of any reader changes the source scene: the nodes with
\* their transforms, pivots, properties and curves, the skin, the mesh and
\* the animation span stay as they were.
C19_SourceUnchanged == [][UNCHANGED sourceVars]_vars


\* C22: in every reader list that contains the imageable reader the
\* transform reader occurs earlier, and the readers of a list run in list
\* order: whenever the imageable reader is due on a node, the transform
\* reader is one of the readers of the node's list that have already run.
C22_TransformReaderBeforeImageable ==
    Due("readImageable") =>
        \E i \in 1..(visit.reader - 1) : CurrentReaders[i] = "readTransform"


\* the default value of a written property and the arrays of its samples
JointsOf(ps, primPath) == ps[primPath \o ".joints"].value.val

ArrayLengths(ps, path) ==
    {Len(ps[path].value.val)} \cup
    {Len(ps[path].timeSamples[i][2].val) : i \in 1..Len(ps[path].timeSamples)}

\* the step of readSkeletonAnimation on a root joint, in a pass with a layer
AnimationWritten ==
    /\ Due("readSkeletonAnimation")
    /\ anim.layer
    /\ ~IsChildJoint(CurrentNode)

C26_AfterAnimation ==
    AnimationWritten =>
        LET skeleton == SkeletonPrimPath(CurrentNode)
            animation == AnimationPrimPath(CurrentNode)
            joints == JointsOf(props', skeleton)
        IN  /\ JointsOf(props', animation) = joints
            /\ \A path \in {skeleton \o ".restTransforms",
                            skeleton \o ".bindTransforms",
                            animation \o ".translations",
                            animation \o ".rotations",
                            animation \o ".scales"} :
                  ArrayLengths(props', path) = {Len(joints)}

\* C26: for one root joint, the joints token list written by readSkeleton
\* equals the one written by readSkeletonAnimation (same tokens, same
\* order), and restTransforms, bindTransforms and every per-frame
\* translations, rotations and scales array have as many entries as it.
C26_JointListsAgree == [][C26_AfterAnimation]_vars

\* C26 witness: both readers have run on a root joint with a joint below
\* it, over a span of several frames; the two joints lists have two or more
\* tokens and the translations hold one array per frame.
C26_Witness ==
    \E n \in RootJoints :
        /\ anim.layer /\ anim.stop > anim.start
        /\ RunsOf("readSkeletonAnimation", n) >= 1
        /\ Len(JointsOf(props, SkeletonPrimPath(n))) >= 2
        /\ Len(JointsOf(props, AnimationPrimPath(n))) >= 2
        /\ Len(props[AnimationPrimPath(n) \o ".translations"].timeSamples) >= 2


\* C27: for every root joint, whatever its depth below the scene root, once
\* readSkeletonAnimation has run on it (with a layer) the animation-source
\* relationship is authored on the path of the joint's Skeleton prim and
\* its targets are the path of the joint's SkelAnimation prim.
C27_AnimationSourceOnSkeletonPrim ==
    \A n \in RootJoints :
        (anim.layer /\ RunsOf("readSkeletonAnimation", n) >= 1) =>
            LET from == SkeletonPrimPath(n) \o ".skel:animationSource"
            IN  /\ prims[SkeletonPrimPath(n)].typeName = "Skeleton"
                /\ from \in DOMAIN props
                /\ props[from].targetPaths # <<>>
                /\ \A i \in 1..Len(props[from].targetPaths) :
                      props[from].targetPaths[i] = AnimationPrimPath(n)


\* the joints of a hierarchy that carry the property on the layer (a user
\* property of that name, or Visibility), in hierarchy order
CarriersOf(n, name) ==
    SelectSeq(SkeletonHierarchy(n).hierarchy,
        LAMBDA j : \E k \in 1..Len(AnimatedProperties(j)) :
                      AnimatedProperties(j)[k].name = name)

AggregatedNames == {"weight", "Visibility"}

\* the step of readSkeletonAnimation on a root joint leaves every aggregated
\* property with aligned lists
C28_AggregatedListsAligned ==
    Due("readSkeletonAnimation") /\ anim.layer /\ ~IsChildJoint(CurrentNode)
    => \A name \in AggregatedNames :
        LET path == AnimationPrimPath(CurrentNode) \o ".userProperties:" \o name
            carriers == CarriersOf(CurrentNode, name)
        IN  carriers # <<>> =>
            /\ path \in DOMAIN props'
            /\ Len(props'[path].value.val) = Len(carriers)
            /\ props'[path \o ":owner"].value.val =
                  [i \in 1..Len(carriers) |->
                      skeletonToTokenPath(carriers[i], nodes[CurrentNode].name)]
            /\ \A s \in 1..Len(props'[path].timeSamples) :
                  Len(props'[path].timeSamples[s][2].val) = Len(carriers)

\* C28: for every user property aggregated over the joints of a hierarchy
\* by readSkeletonAnimation, the default value list, the owner-path list
\* and the value list of every time sample have the same length, one entry
\* per joint that carries the property, the owner paths being those joints'
\* tokens in hierarchy order.
C28_AggregatedListsStayAligned == [][C28_AggregatedListsAligned]_vars


\* a step that is CreateConnection with these arguments leaves the source
\* property with the connection paths entry naming the target property
ConnectionKept(sourcePath, sourceAttribute, targetPath, targetAttribute) ==
    \A targetTypeName \in ConnectionTypeNames, metadata \in ConnectionMetadata :
        props' = CreateConnection(props, sourcePath, sourceAttribute,
                     targetPath, targetAttribute, targetTypeName, metadata)
        => LET source == AppendProperty(sourcePath, sourceAttribute)
           IN  /\ source \in DOMAIN props'
               /\ "connectionPaths" \in DOMAIN props'[source].metadata
               /\ props'[source].metadata["connectionPaths"]
                     = AppendProperty(targetPath, targetAttribute)

\* C29: after CreateConnection returns, on a sink that returns the existing
\* property for an existing path, the source property's metadata holds the
\* connection paths entry naming the target property path: the second
\* CreateProperty call on the path leaves the entry as it is.
C29_ConnectionPathsKept ==
    [][\A sourcePath \in ConnectedPrims, targetPath \in ConnectedPrims :
       \A sourceAttribute \in ConnectedAttributes,
          targetAttribute \in ConnectedAttributes :
          ConnectionKept(sourcePath, sourceAttribute, targetPath,
                         targetAttribute)]_vars


\* the names of the properties readTransform and readImageable write
TransformAndImageableNames ==
    {"xformOp:translate", "xformOp:translate:pivot", "xformOp:scale",
     "xformOpOrder", "visibility", "purpose", "generated:visibility"}
    \cup {"xformOp:rotate" \o order :
            order \in {"XYZ", "XZY", "YXZ", "YZX", "ZXY", "ZYX"}}

\* C30: for every property that readTransform and readImageable create, the
\* type of the default value and the type of every time sample agree with
\* the property's declared type name.
C30_ValuesHaveDeclaredType ==
    \A n \in DOMAIN nodes \ {SceneRoot}, name \in TransformAndImageableNames :
        LET path == AppendProperty(ContextPath(n), name)
        IN  path \in DOMAIN props =>
                /\ props[path].value.held = HeldBy(props[path].typeName)
                /\ \A i \in 1..Len(props[path].timeSamples) :
                      props[path].timeSamples[i][2].held
                          = HeldBy(props[path].typeName)

====
